---- MODULE Spec2Model ----
(***************************************************************************)
(* Model of the Cinch rules engine (src/lib/game.js, with its Hand, Deck   *)
(* and Player data types) and of the socket event handlers that drive it   *)
(* (src/server.js).                                                        *)
(*                                                                         *)
(* A card is a number 0..51 in the order Deck.createDeck builds the deck   *)
(* (suit-major, rank-minor): its suit is c \div 13, its rank index in      *)
(* RANKS is c % 13.  A seat is a number 0..3; "no player" (null) is -1.    *)
(***************************************************************************)
EXTENDS Integers, Sequences, FiniteSets, TLC

\* ---------------------------------------------------------------- bounds

\* Number of shuffle outcomes the model draws a fresh deck from.
NumShuffles == 2
\* Hands that may be started after construction or a reset.
MaxHands == 2
\* Engine-level calls: processBid calls accepted within one hand.
MaxBids == 5
\* Engine-level calls: responses accepted within one override sub-phase.
MaxAttempts == 3
\* Sockets that connect; the roster holds 4, so one of 5 never gets a seat.
NumSockets == 5

\* Number of ways the sample cards of SpecTrick are dealt.
NumTrickDeals == 8

\* Number of sample cards SpecScore shares out among the won piles.
NumScoreCards == 5
\* Hands started in a row (SpecHands): one more than the seats, so that the
\* dealer comes round to seat 0 again.
MaxDeals == 5
\* Cards played into the first trick of a hand (SpecHands).
MaxPlays == 2
\* Longest hand Hand.removeCards is applied to (SpecRemove).
MaxHandLen == 4

\* ------------------------------------------------------------- constants

NumSuits == 4
NumRanks == 13
DeckSize == NumSuits * NumRanks
NumSeats == 4
CardsEach == 6
CinchValue == 11
WinScore == 21
NoSeat == -1
NoSuit == -1

Seats == 0 .. (NumSeats - 1)
SUITS == 0 .. (NumSuits - 1)
BidNames == {"pass", "1", "2", "3", "4", "cinch"}

BID_VALUES(bid) ==
    CASE bid = "pass" -> 0
      [] bid = "1" -> 1
      [] bid = "2" -> 2
      [] bid = "3" -> 3
      [] bid = "4" -> 4
      [] bid = "cinch" -> CinchValue

Suit(c) == c \div NumRanks
getRankIndex(c) == c % NumRanks

\* Variant of getPointValue in which a ten counts nothing.
getPointValue_TenIsZero(c) ==
    CASE getRankIndex(c) = 12 -> 4
      [] getRankIndex(c) = 11 -> 3
      [] getRankIndex(c) = 10 -> 2
      [] getRankIndex(c) = 9 -> 1
      [] OTHER -> 0

\* Rank indices in RANKS: '10' is 8, J 9, Q 10, K 11, A 12.
getPointValue(c) ==
    CASE getRankIndex(c) = 12 -> 4
      [] getRankIndex(c) = 11 -> 3
      [] getRankIndex(c) = 10 -> 2
      [] getRankIndex(c) = 9 -> 1
      [] getRankIndex(c) = 8 -> 10
      [] OTHER -> 0

\* Player constructor: team 1 for an even seat, team 2 for an odd one.
Team(seat) == IF seat % 2 = 0 THEN 1 ELSE 2

\* ------------------------------------------------------------- sequences

Range(s) == {s[i] : i \in 1 .. Len(s)}

RECURSIVE SumLen(_, _)
SumLen(f, S) ==
    IF S = {} THEN 0
    ELSE LET x == CHOOSE y \in S : TRUE IN Len(f[x]) + SumLen(f, S \ {x})

\* Deck.createDeck then Deck.shuffle: the k-th shuffle outcome of the model.
\* Position i holds card (i * stride + 13 * k) mod 52 with an odd stride that
\* is no multiple of 13, so every outcome is a permutation of the 52 cards.
ShuffledDeck(k) ==
    [i \in 1 .. DeckSize |-> ((i - 1) * (5 + 2 * k) + NumRanks * k) % DeckSize]

\* ----------------------------------------------------------------- state

VARIABLES
    players,            \* roster: players[i] is the socket id of seat i-1
    hand,               \* seat -> cards in hand, in order
    wonCards,           \* seat -> cards won in tricks
    deck,               \* the deck, top first
    currentBid,
    highestBidder,      \* seat or NoSeat
    bidContract,
    trumpSuit,          \* suit or NoSuit
    phase,
    currentPlayer,
    trickPlays,         \* sequence of [seat, card]
    scores,             \* team -> cumulative score
    bids,
    playersDiscarded,
    cinchBidder,        \* seat or NoSeat
    cinchOverridePhase,
    overrideAttempts,
    dealer,
    isFirstHand,
    playersBid,         \* set of seats that have bid this hand
    result,             \* what the last processBid of this hand returned
    discardPile,        \* cards Hand.removeCards returned to handleDiscard this hand
    overrideLog,        \* seats whose "pass" was broadcast during the override
    discarders,         \* seats that have sent discardCards this hand
    handsDealt,         \* hands started since construction or reset
    fault               \* a handler threw (TypeError on undefined/null)

vars == <<players, hand, wonCards, deck, currentBid, highestBidder, bidContract,
          trumpSuit, phase, currentPlayer, trickPlays, scores, bids,
          playersDiscarded, cinchBidder, cinchOverridePhase, overrideAttempts,
          dealer, isFirstHand, playersBid, result, discardPile, overrideLog,
          discarders, handsDealt, fault>>

cardVars == <<hand, wonCards, deck, trickPlays, discardPile>>
bidVars == <<currentBid, highestBidder, bidContract, cinchBidder,
             cinchOverridePhase, overrideAttempts, playersBid, bids,
             currentPlayer, phase, result>>

\* A result object of processBid; a field the object lacks is "undefined".
NoResult ==
    [finished |-> "undefined", cinchOverride |-> "undefined",
     cinchOffered |-> "undefined", overrideSuccessful |-> "undefined",
     error |-> "undefined"]

Result(fin, ov, off, succ, err) ==
    [finished |-> fin, cinchOverride |-> ov, cinchOffered |-> off,
     overrideSuccessful |-> succ, error |-> err]

EmptyHands == [s \in Seats |-> <<>>]

\* CinchGame constructor.
Init ==
    /\ players = <<>>
    /\ hand = EmptyHands
    /\ wonCards = EmptyHands
    /\ deck = [i \in 1 .. DeckSize |-> i - 1]
    /\ currentBid = 0
    /\ highestBidder = NoSeat
    /\ bidContract = 0
    /\ trumpSuit = NoSuit
    /\ phase = "waiting"
    /\ currentPlayer = 0
    /\ trickPlays = <<>>
    /\ scores = [t \in 1 .. 2 |-> 0]
    /\ bids = 0
    /\ playersDiscarded = 0
    /\ cinchBidder = NoSeat
    /\ cinchOverridePhase = FALSE
    /\ overrideAttempts = 0
    /\ dealer = -1
    /\ isFirstHand = TRUE
    /\ playersBid = {}
    /\ result = NoResult
    /\ discardPile = <<>>
    /\ overrideLog = {}
    /\ discarders = {}
    /\ handsDealt = 0
    /\ fault = FALSE


\* ------------------------------------------------------ engine: roster

\* CinchGame.getPlayer: the seat of the first player whose id is the socket,
\* NoSeat when there is none (undefined).
getPlayer(sock) ==
    IF \E i \in 1 .. Len(players) : players[i] = sock
    THEN (CHOOSE i \in 1 .. Len(players) :
              /\ players[i] = sock
              /\ \A j \in 1 .. (i - 1) : players[j] # sock) - 1
    ELSE NoSeat

Seated == 0 .. (Len(players) - 1)

\* new Player(id, seat, name), less the name and the two card piles.
Player(id, seat) == [id |-> id, seat |-> seat, team |-> Team(seat)]

\* The null addPlayer returns.
NoPlayer == [id |-> -1, seat |-> NoSeat, team |-> 0]

\* Variant of addPlayer that numbers the seats from 1.
addPlayer_SeatFromOne(roster, id) ==
    IF Len(roster) >= NumSeats THEN [players |-> roster, player |-> NoPlayer]
    ELSE [players |-> Append(roster, Player(id, Len(roster) + 1)),
          player |-> Player(id, Len(roster) + 1)]

\* CinchGame.addPlayer on a roster of Player objects: the roster after the
\* call and the player returned.
addPlayer(roster, id) ==
    IF Len(roster) >= NumSeats THEN [players |-> roster, player |-> NoPlayer]
    ELSE [players |-> Append(roster, Player(id, Len(roster))),
          player |-> Player(id, Len(roster))]

\* CinchGame.nextPlayer, as a function of the current-turn seat.
nextPlayer(cur) == (cur + 1) % NumSeats

\* ----------------------------------------------------- engine: dealing

\* CinchGame.dealCards: one card per player per round, in seat order, while
\* the deck lasts.  Card j of the deck (0-based) goes to seat j % n.
DealtCount(d, n) ==
    IF n = 0 THEN 0
    ELSE IF Len(d) < CardsEach * n THEN Len(d) ELSE CardsEach * n

dealCardsHands(d, n, h) ==
    [s \in Seats |->
        IF s < n
        THEN h[s] \o [k \in 1 .. ((DealtCount(d, n) - s + n - 1) \div n) |->
                          d[(k - 1) * n + s + 1]]
        ELSE h[s]]

dealCardsDeck(d, n) == SubSeq(d, DealtCount(d, n) + 1, Len(d))

\* CinchGame.dealNewCards: each player in seat order is topped up to 6 cards
\* from the top of the deck, while the deck lasts.
Shortfall(h, d) ==
    LET need == CardsEach - Len(h) IN
    IF need <= 0 THEN 0 ELSE IF need > Len(d) THEN Len(d) ELSE need

RECURSIVE dealNewCardsFrom(_, _, _, _)
dealNewCardsFrom(s, n, h, d) ==
    IF s >= n THEN [hand |-> h, deck |-> d]
    ELSE LET k == Shortfall(h[s], d) IN
         dealNewCardsFrom(s + 1, n,
                          [h EXCEPT ![s] = @ \o SubSeq(d, 1, k)],
                          SubSeq(d, k + 1, Len(d)))

dealNewCards == dealNewCardsFrom(0, Len(players), hand, deck)

\* ----------------------------------------------------- engine: bidding

\* The engine fields processBid reads and writes, as one record.
BidState ==
    [currentBid |-> currentBid, highestBidder |-> highestBidder,
     bidContract |-> bidContract, cinchBidder |-> cinchBidder,
     cinchOverridePhase |-> cinchOverridePhase,
     overrideAttempts |-> overrideAttempts, playersBid |-> playersBid,
     bids |-> bids, currentPlayer |-> currentPlayer, phase |-> phase,
     result |-> result]

SetBidState(g) ==
    /\ currentBid' = g.currentBid
    /\ highestBidder' = g.highestBidder
    /\ bidContract' = g.bidContract
    /\ cinchBidder' = g.cinchBidder
    /\ cinchOverridePhase' = g.cinchOverridePhase
    /\ overrideAttempts' = g.overrideAttempts
    /\ playersBid' = g.playersBid
    /\ bids' = g.bids
    /\ currentPlayer' = g.currentPlayer
    /\ phase' = g.phase
    /\ result' = g.result

isValidBid(bid, curBid) ==
    IF bid \notin BidNames THEN FALSE
    ELSE bid = "pass" \/ BID_VALUES(bid) > curBid

\* Seated players of the other team than the cinch bidder that have not bid.
getEligibleOpposingPlayers(g) ==
    {s \in Seated : Team(s) # Team(g.cinchBidder) /\ s \notin g.playersBid}

\* The loop of findNextEligibleOpposingTeamMember: at most 4 rotation steps,
\* stopping at the first seat of the eligible set.
RECURSIVE FindLoop(_, _, _)
FindLoop(cur, eligible, attempts) ==
    IF attempts < NumSeats
    THEN LET c == nextPlayer(cur) IN
         IF c \in eligible THEN c ELSE FindLoop(c, eligible, attempts + 1)
    ELSE cur

\* Variant of findNextEligibleOpposingTeamMember that moves the turn one
\* seat on without looking at the eligible players.
findNextEligibleOpposingTeamMember_OneStep(g) ==
    [g EXCEPT !.currentPlayer = nextPlayer(@)]

findNextEligibleOpposingTeamMember(g) ==
    LET eligible == getEligibleOpposingPlayers(g) IN
    IF eligible = {} THEN g
    ELSE [g EXCEPT !.currentPlayer = FindLoop(@, eligible, 0)]

\* Variant of OverrideCinch whose successful override leaves the sub-phase
\* open.
OverrideCinch_KeepsPhase(g, seat) ==
    IF seat \in g.playersBid
    THEN [g EXCEPT !.result =
              Result("false", "true", "undefined", "undefined",
                     "Player has already bid this hand")]
    ELSE [g EXCEPT !.highestBidder = seat,
                   !.bidContract = BID_VALUES("cinch"),
                   !.cinchBidder = seat,
                   !.playersBid = @ \cup {seat},
                   !.result = Result("true", "true", "undefined", "true",
                                     "undefined")]

\* Variant of OverrideCinch without the playersBid test.
OverrideCinch_NoCheck(g, seat) ==
    [g EXCEPT !.highestBidder = seat,
              !.bidContract = BID_VALUES("cinch"),
              !.cinchBidder = seat,
              !.playersBid = @ \cup {seat},
              !.cinchOverridePhase = FALSE,
              !.overrideAttempts = 0,
              !.result = Result("true", "true", "undefined", "true",
                                "undefined")]

\* Variant of OverrideCinch whose rejection also moves the turn on.
OverrideCinch_RejectMovesTurn(g, seat) ==
    IF seat \in g.playersBid
    THEN [g EXCEPT !.currentPlayer = nextPlayer(@),
                   !.result =
              Result("false", "true", "undefined", "undefined",
                     "Player has already bid this hand")]
    ELSE [g EXCEPT !.highestBidder = seat,
                   !.bidContract = BID_VALUES("cinch"),
                   !.cinchBidder = seat,
                   !.playersBid = @ \cup {seat},
                   !.cinchOverridePhase = FALSE,
                   !.overrideAttempts = 0,
                   !.result = Result("true", "true", "undefined", "true",
                                     "undefined")]

\* processBid, override sub-phase, bid = 'cinch' (attempt already counted).
OverrideCinch(g, seat) ==
    IF seat \in g.playersBid
    THEN [g EXCEPT !.result =
              Result("false", "true", "undefined", "undefined",
                     "Player has already bid this hand")]
    ELSE [g EXCEPT !.highestBidder = seat,
                   !.bidContract = BID_VALUES("cinch"),
                   !.cinchBidder = seat,
                   !.playersBid = @ \cup {seat},
                   !.cinchOverridePhase = FALSE,
                   !.overrideAttempts = 0,
                   !.result = Result("true", "true", "undefined", "true",
                                     "undefined")]

\* Variant of OverrideDecline that never closes the sub-phase.
OverrideDecline_NeverEnds(g) ==
    [findNextEligibleOpposingTeamMember(g) EXCEPT !.result =
         Result("false", "true", "undefined", "undefined", "undefined")]

\* Variant of OverrideDecline that stops one decline early.
OverrideDecline_OneShort(g) ==
    IF g.overrideAttempts + 1 >= Cardinality(getEligibleOpposingPlayers(g))
    THEN [g EXCEPT !.cinchOverridePhase = FALSE,
                   !.overrideAttempts = 0,
                   !.result = Result("true", "true", "undefined", "false",
                                     "undefined")]
    ELSE [findNextEligibleOpposingTeamMember(g) EXCEPT !.result =
              Result("false", "true", "undefined", "undefined", "undefined")]

\* Variant of OverrideDecline whose unsuccessful end keeps the attempt count
\* and forgets the contract.
OverrideDecline_DropsContract(g) ==
    IF g.overrideAttempts >= Cardinality(getEligibleOpposingPlayers(g))
    THEN [g EXCEPT !.cinchOverridePhase = FALSE,
                   !.bidContract = 0,
                   !.result = Result("true", "true", "undefined", "false",
                                     "undefined")]
    ELSE [findNextEligibleOpposingTeamMember(g) EXCEPT !.result =
              Result("false", "true", "undefined", "undefined", "undefined")]

\* processBid, override sub-phase, any other bid (attempt already counted).
OverrideDecline(g) ==
    IF g.overrideAttempts >= Cardinality(getEligibleOpposingPlayers(g))
    THEN [g EXCEPT !.cinchOverridePhase = FALSE,
                   !.overrideAttempts = 0,
                   !.result = Result("true", "true", "undefined", "false",
                                     "undefined")]
    ELSE [findNextEligibleOpposingTeamMember(g) EXCEPT !.result =
              Result("false", "true", "undefined", "undefined", "undefined")]

\* Variant of CinchBid that never offers the override.
CinchBid_NoOffer(g, seat) ==
    [g EXCEPT !.cinchBidder = seat,
              !.phase = "chooseTrump",
              !.cinchOverridePhase = FALSE,
              !.overrideAttempts = 0,
              !.result = Result("true", "undefined", "undefined",
                                "undefined", "undefined")]

\* Variant of CinchBid that offers the override whenever the cinch is not
\* the 4th bid, without looking for an eligible seat.
CinchBid_AlwaysOffer(g, seat) ==
    LET g1 == [g EXCEPT !.cinchBidder = seat] IN
    IF g1.bids = NumSeats
    THEN [g1 EXCEPT !.phase = "chooseTrump",
                    !.cinchOverridePhase = FALSE,
                    !.overrideAttempts = 0,
                    !.result = Result("true", "undefined", "undefined",
                                      "undefined", "undefined")]
    ELSE [findNextEligibleOpposingTeamMember(
              [g1 EXCEPT !.cinchOverridePhase = TRUE,
                         !.overrideAttempts = 0])
          EXCEPT !.result = Result("false", "true", "true", "undefined",
                                   "undefined")]

\* processBid, normal bidding, bid = 'cinch' (bid already recorded).
CinchBid(g, seat) ==
    LET g1 == [g EXCEPT !.cinchBidder = seat] IN
    IF g1.bids = NumSeats
    THEN [g1 EXCEPT !.phase = "chooseTrump",
                    !.cinchOverridePhase = FALSE,
                    !.overrideAttempts = 0,
                    !.result = Result("true", "undefined", "undefined",
                                      "undefined", "undefined")]
    ELSE IF Cardinality(getEligibleOpposingPlayers(g1)) > 0
    THEN [findNextEligibleOpposingTeamMember(
              [g1 EXCEPT !.cinchOverridePhase = TRUE,
                         !.overrideAttempts = 0])
          EXCEPT !.result = Result("false", "true", "true", "undefined",
                                   "undefined")]
    ELSE [g1 EXCEPT !.phase = "chooseTrump",
                    !.cinchOverridePhase = FALSE,
                    !.overrideAttempts = 0,
                    !.result = Result("true", "undefined", "undefined",
                                      "undefined", "undefined")]

\* Variant of AdvanceBidding that ends bidding on the 3rd bid.
AdvanceBidding_EndsAtThree(g) ==
    LET g1 == [g EXCEPT !.currentPlayer = nextPlayer(@)] IN
    IF g1.bids >= NumSeats - 1
    THEN [g1 EXCEPT !.phase = "chooseTrump",
                    !.cinchOverridePhase = FALSE,
                    !.overrideAttempts = 0,
                    !.result = Result("true", "undefined", "undefined",
                                      "undefined", "undefined")]
    ELSE [g1 EXCEPT !.result = Result("false", "undefined", "undefined",
                                      "undefined", "undefined")]

\* Variant of AdvanceBidding that reports the end of bidding without
\* changing the phase.
AdvanceBidding_KeepsPhase(g) ==
    LET g1 == [g EXCEPT !.currentPlayer = nextPlayer(@)] IN
    IF g1.bids = NumSeats
    THEN [g1 EXCEPT !.cinchOverridePhase = FALSE,
                    !.overrideAttempts = 0,
                    !.result = Result("true", "undefined", "undefined",
                                      "undefined", "undefined")]
    ELSE [g1 EXCEPT !.result = Result("false", "undefined", "undefined",
                                      "undefined", "undefined")]

\* processBid, normal bidding, after a pass or a numbered bid.
AdvanceBidding(g) ==
    LET g1 == [g EXCEPT !.currentPlayer = nextPlayer(@)] IN
    IF g1.bids = NumSeats
    THEN [g1 EXCEPT !.phase = "chooseTrump",
                    !.cinchOverridePhase = FALSE,
                    !.overrideAttempts = 0,
                    !.result = Result("true", "undefined", "undefined",
                                      "undefined", "undefined")]
    ELSE [g1 EXCEPT !.result = Result("false", "undefined", "undefined",
                                      "undefined", "undefined")]

\* Variant of NormalBid in which the first seat to name a number stays the
\* highest bidder.
NormalBid_KeepsBidder(g, seat, bid) ==
    LET g1 == [g EXCEPT !.bids = @ + 1, !.playersBid = @ \cup {seat}] IN
    IF bid # "pass"
    THEN LET g2 == [g1 EXCEPT !.currentBid = BID_VALUES(bid),
                              !.highestBidder = IF @ = NoSeat THEN seat ELSE @,
                              !.bidContract = BID_VALUES(bid)] IN
         IF bid = "cinch" THEN CinchBid(g2, seat) ELSE AdvanceBidding(g2)
    ELSE AdvanceBidding(g1)

\* processBid, normal bidding.
NormalBid(g, seat, bid) ==
    LET g1 == [g EXCEPT !.bids = @ + 1, !.playersBid = @ \cup {seat}] IN
    IF bid # "pass"
    THEN LET g2 == [g1 EXCEPT !.currentBid = BID_VALUES(bid),
                              !.highestBidder = seat,
                              !.bidContract = BID_VALUES(bid)] IN
         IF bid = "cinch" THEN CinchBid(g2, seat) ELSE AdvanceBidding(g2)
    ELSE AdvanceBidding(g1)

processBid(g, seat, bid) ==
    IF g.cinchOverridePhase
    THEN LET g1 == [g EXCEPT !.overrideAttempts = @ + 1] IN
         IF bid = "cinch" THEN OverrideCinch(g1, seat) ELSE OverrideDecline(g1)
    ELSE NormalBid(g, seat, bid)


\* ------------------------------------------------------- Hand container

\* Array.prototype.splice(index, 1) on a list of length n: the position that
\* is removed (0-based), or n when nothing is removed.
SpliceStart(n, index) ==
    IF index < 0 THEN (IF n + index < 0 THEN 0 ELSE n + index)
    ELSE IF index > n THEN n ELSE index

\* Variant of RemoveAt that takes the card after the chosen one as well.
RemoveAt_Two(cards, pos) ==
    SubSeq(cards, 1, pos) \o SubSeq(cards, pos + 3, Len(cards))

RemoveAt(cards, pos) ==
    SubSeq(cards, 1, pos) \o SubSeq(cards, pos + 2, Len(cards))

\* indices.sort((a, b) => b - a): descending insertion.
RECURSIVE SortDesc(_)
InsertDesc(x, s) ==
    LET k == Cardinality({i \in 1 .. Len(s) : s[i] >= x}) IN
    SubSeq(s, 1, k) \o <<x>> \o SubSeq(s, k + 1, Len(s))
SortDesc(s) ==
    IF s = <<>> THEN <<>> ELSE InsertDesc(s[1], SortDesc(Tail(s)))

\* Hand.removeCards: [cards |-> what is left, removed |-> the cards taken out].
\* A splice past the end takes nothing out (the code pushes undefined).
RECURSIVE removeSorted(_, _, _)
removeSorted(cards, sortedIndices, removed) ==
    IF sortedIndices = <<>> THEN [cards |-> cards, removed |-> removed]
    ELSE LET pos == SpliceStart(Len(cards), sortedIndices[1]) IN
         IF pos < Len(cards)
         THEN removeSorted(RemoveAt(cards, pos), Tail(sortedIndices),
                           Append(removed, cards[pos + 1]))
         ELSE removeSorted(cards, Tail(sortedIndices), removed)

\* Variant of removeCards that splices in the order the indices come in.
removeCards_Unsorted(cards, indices) == removeSorted(cards, indices, <<>>)

removeCards(cards, indices) == removeSorted(cards, SortDesc(indices), <<>>)

hasSuit(cards, suit) == \E i \in 1 .. Len(cards) : Suit(cards[i]) = suit

hasCard(cards, c) == \E i \in 1 .. Len(cards) : cards[i] = c

\* Hand.getNonTrumpIndices, as an ascending list of 0-based indices.
RECURSIVE nonTrumpFrom(_, _, _)
nonTrumpFrom(cards, trump, i) ==
    IF i > Len(cards) THEN <<>>
    ELSE IF Suit(cards[i]) # trump
         THEN <<i - 1>> \o nonTrumpFrom(cards, trump, i + 1)
         ELSE nonTrumpFrom(cards, trump, i + 1)

getNonTrumpIndices(cards, trump) == nonTrumpFrom(cards, trump, 1)

RECURSIVE getTotalPointValue(_)
getTotalPointValue(cards) ==
    IF cards = <<>> THEN 0
    ELSE getPointValue(cards[1]) + getTotalPointValue(Tail(cards))

\* -------------------------------------------------- engine: trick play

\* The entries of SUITS in order (hearts, diamonds, clubs, spades), spelled
\* in ASCII.
SuitName(s) ==
    CASE s = 0 -> "hearts"
      [] s = 1 -> "diamonds"
      [] s = 2 -> "clubs"
      [] s = 3 -> "spades"

\* The reason canPlayCard gives when the led suit must be followed.
MustFollowSuit(leadSuit) ==
    "You must follow suit (" \o SuitName(leadSuit) \o ") if you have one."

\* Variant of canPlayCard without the follow-suit test.
canPlayCard_NoFollow(seat, cardIndex) ==
    IF phase # "playing" \/ seat # currentPlayer THEN "Not your turn"
    ELSE IF cardIndex < 0 \/ cardIndex >= Len(hand[seat])
    THEN "Invalid card index"
    ELSE "valid"

\* Variant of canPlayCard that tests the turn but not the phase.
canPlayCard_AnyPhase(seat, cardIndex) ==
    IF seat # currentPlayer THEN "Not your turn"
    ELSE IF cardIndex < 0 \/ cardIndex >= Len(hand[seat])
    THEN "Invalid card index"
    ELSE IF /\ Len(trickPlays) > 0
            /\ hasSuit(hand[seat], Suit(trickPlays[1].card))
            /\ Suit(hand[seat][cardIndex + 1]) # Suit(trickPlays[1].card)
    THEN MustFollowSuit(Suit(trickPlays[1].card))
    ELSE "valid"

\* CinchGame.canPlayCard: "valid" or the reason of the refusal.
canPlayCard(seat, cardIndex) ==
    IF phase # "playing" \/ seat # currentPlayer THEN "Not your turn"
    ELSE IF cardIndex < 0 \/ cardIndex >= Len(hand[seat])
    THEN "Invalid card index"
    ELSE IF /\ Len(trickPlays) > 0
            /\ hasSuit(hand[seat], Suit(trickPlays[1].card))
            /\ Suit(hand[seat][cardIndex + 1]) # Suit(trickPlays[1].card)
    THEN MustFollowSuit(Suit(trickPlays[1].card))
    ELSE "valid"

\* CinchGame.resolveTrick: one left-to-right pass over the plays.
RECURSIVE resolveFrom(_, _, _, _)
resolveFrom(plays, trump, i, winning) ==
    IF i > Len(plays) THEN winning
    ELSE LET play == plays[i] IN
         IF Suit(play.card) = trump /\ Suit(winning.card) # trump
         THEN resolveFrom(plays, trump, i + 1, play)
         ELSE IF /\ Suit(play.card) = Suit(winning.card)
                 /\ getRankIndex(play.card) > getRankIndex(winning.card)
         THEN resolveFrom(plays, trump, i + 1, play)
         ELSE resolveFrom(plays, trump, i + 1, winning)

\* Variant of resolveTrick that treats no suit as trump.
resolveTrick_NoTrump(plays, trump) == resolveFrom(plays, NoSuit, 2, plays[1])

resolveTrick(plays, trump) == resolveFrom(plays, trump, 2, plays[1])

\* CinchGame.isHandComplete over the hands h.
isHandComplete(h) == \A s \in Seated : Len(h[s]) = 0

\* CinchGame.isGameComplete over the scores sc.
isGameComplete(sc) == sc[1] >= WinScore \/ sc[2] >= WinScore

\* Variant of getWinningTeam that prefers team 1 whenever it has 21.
getWinningTeam_TeamOneFirst(sc) ==
    IF sc[1] >= WinScore THEN 1
    ELSE IF sc[2] >= WinScore THEN 2
    ELSE 0

\* CinchGame.getWinningTeam over the scores sc; 0 stands for null.
getWinningTeam(sc) ==
    IF sc[1] >= WinScore /\ sc[2] >= WinScore
    THEN IF sc[1] > sc[2] THEN 1 ELSE IF sc[2] > sc[1] THEN 2 ELSE 0
    ELSE IF sc[1] >= WinScore THEN 1
    ELSE IF sc[2] >= WinScore THEN 2
    ELSE 0

\* ----------------------------------------------------- engine: scoring

RECURSIVE FlattenFrom(_, _)
FlattenFrom(w, s) ==
    IF s >= Len(players) THEN <<>> ELSE w[s] \o FlattenFrom(w, s + 1)

\* Variant of SelectTrump that keeps the cards of every suit.
SelectTrump_AllSuits(cards, trump) == cards

SelectTrump(cards, trump) == SelectSeq(cards, LAMBDA c : Suit(c) = trump)

\* CinchGame.findCardTeam: team of the first player whose won pile has the card.
findCardTeam(w, c) ==
    IF \E s \in Seated : hasCard(w[s], c)
    THEN Team(CHOOSE s \in Seated :
                  /\ hasCard(w[s], c)
                  /\ \A t \in Seated : t < s => ~hasCard(w[t], c))
    ELSE 0

\* The reduce of calculateScore for High (a later card replaces the current
\* one when its rank is strictly higher) and for Low (strictly lower).
RECURSIVE reduceHigh(_, _, _)
reduceHigh(cards, i, best) ==
    IF i > Len(cards) THEN best
    ELSE reduceHigh(cards, i + 1,
                    IF getRankIndex(cards[i]) > getRankIndex(best)
                    THEN cards[i] ELSE best)

RECURSIVE reduceLow(_, _, _)
reduceLow(cards, i, best) ==
    IF i > Len(cards) THEN best
    ELSE reduceLow(cards, i + 1,
                   IF getRankIndex(cards[i]) < getRankIndex(best)
                   THEN cards[i] ELSE best)

TeamCardPoints(w, t) ==
    LET S == {s \in Seated : Team(s) = t}
        f[T \in SUBSET S] ==
            IF T = {} THEN 0
            ELSE LET x == CHOOSE y \in T : TRUE IN
                 getTotalPointValue(w[x]) + f[T \ {x}]
    IN f[S]

\* Variant of calculateScore that gives the Game point to both teams when
\* their card points are equal.
calculateScore_TieToBoth(w, trump) ==
    LET trumpCards == SelectTrump(FlattenFrom(w, 0), trump)
        highTeam == IF Len(trumpCards) > 0
                    THEN findCardTeam(w, reduceHigh(trumpCards, 2, trumpCards[1]))
                    ELSE 0
        lowTeam == IF Len(trumpCards) > 0
                   THEN findCardTeam(w, reduceLow(trumpCards, 2, trumpCards[1]))
                   ELSE 0
        jackTeam == IF \E i \in 1 .. Len(trumpCards) : getRankIndex(trumpCards[i]) = 9
                    THEN findCardTeam(w, trump * NumRanks + 9)
                    ELSE 0
        p1 == TeamCardPoints(w, 1)
        p2 == TeamCardPoints(w, 2)
        gameTeam == IF p1 > p2 THEN 1 ELSE IF p2 > p1 THEN 2 ELSE 0
        pts(t) == (IF highTeam = t THEN 1 ELSE 0) + (IF lowTeam = t THEN 1 ELSE 0)
                  + (IF jackTeam = t THEN 1 ELSE 0)
                  + (IF gameTeam = t \/ p1 = p2 THEN 1 ELSE 0)
    IN [high |-> highTeam, low |-> lowTeam, jack |-> jackTeam, game |-> gameTeam,
        points |-> <<p1, p2>>, teamPoints |-> <<pts(1), pts(2)>>]

\* CinchGame.calculateScore over the won piles w; team 0 stands for null.
calculateScore(w, trump) ==
    LET trumpCards == SelectTrump(FlattenFrom(w, 0), trump)
        highTeam == IF Len(trumpCards) > 0
                    THEN findCardTeam(w, reduceHigh(trumpCards, 2, trumpCards[1]))
                    ELSE 0
        lowTeam == IF Len(trumpCards) > 0
                   THEN findCardTeam(w, reduceLow(trumpCards, 2, trumpCards[1]))
                   ELSE 0
        jackTeam == IF \E i \in 1 .. Len(trumpCards) : getRankIndex(trumpCards[i]) = 9
                    THEN findCardTeam(w, trump * NumRanks + 9)
                    ELSE 0
        p1 == TeamCardPoints(w, 1)
        p2 == TeamCardPoints(w, 2)
        gameTeam == IF p1 > p2 THEN 1 ELSE IF p2 > p1 THEN 2 ELSE 0
        pts(t) == (IF highTeam = t THEN 1 ELSE 0) + (IF lowTeam = t THEN 1 ELSE 0)
                  + (IF jackTeam = t THEN 1 ELSE 0) + (IF gameTeam = t THEN 1 ELSE 0)
    IN [high |-> highTeam, low |-> lowTeam, jack |-> jackTeam, game |-> gameTeam,
        points |-> <<p1, p2>>, teamPoints |-> <<pts(1), pts(2)>>]

\* Variant of applyScore in which a made cinch is paid like any other bid.
applyScore_CinchPaidAsEarned(sc, teamPoints, bidder, contract) ==
    LET biddingTeam == Team(bidder)
        otherTeam == IF biddingTeam = 1 THEN 2 ELSE 1
        sc1 == [sc EXCEPT ![otherTeam] = @ + teamPoints[otherTeam]]
        min4 == IF teamPoints[biddingTeam] < 4 THEN teamPoints[biddingTeam] ELSE 4
    IN
    IF contract = CinchValue /\ teamPoints[biddingTeam] # 4
    THEN [scores |-> [sc1 EXCEPT ![biddingTeam] = @ - contract],
          success |-> FALSE, biddingTeam |-> biddingTeam, pointsAwarded |-> -1]
    ELSE IF teamPoints[biddingTeam] >= contract \/ contract = CinchValue
         THEN [scores |-> [sc1 EXCEPT ![biddingTeam] = @ + min4],
               success |-> TRUE, biddingTeam |-> biddingTeam, pointsAwarded |-> min4]
         ELSE [scores |-> [sc1 EXCEPT ![biddingTeam] = @ - contract],
               success |-> FALSE, biddingTeam |-> biddingTeam, pointsAwarded |-> -1]

\* Variant of applyScore in which a made bid is paid the contract.
applyScore_PaysContract(sc, teamPoints, bidder, contract) ==
    LET biddingTeam == Team(bidder)
        otherTeam == IF biddingTeam = 1 THEN 2 ELSE 1
        sc1 == [sc EXCEPT ![otherTeam] = @ + teamPoints[otherTeam]]
    IN
    IF contract = CinchValue
    THEN IF teamPoints[biddingTeam] = 4
         THEN [scores |-> [sc1 EXCEPT ![biddingTeam] = @ + CinchValue],
               success |-> TRUE, biddingTeam |-> biddingTeam, pointsAwarded |-> CinchValue]
         ELSE [scores |-> [sc1 EXCEPT ![biddingTeam] = @ - contract],
               success |-> FALSE, biddingTeam |-> biddingTeam, pointsAwarded |-> -1]
    ELSE IF teamPoints[biddingTeam] >= contract
         THEN [scores |-> [sc1 EXCEPT ![biddingTeam] = @ + contract],
               success |-> TRUE, biddingTeam |-> biddingTeam, pointsAwarded |-> contract]
         ELSE [scores |-> [sc1 EXCEPT ![biddingTeam] = @ - contract],
               success |-> FALSE, biddingTeam |-> biddingTeam, pointsAwarded |-> -1]

\* Variant of applyScore that pays the other team only when the bid fails.
applyScore_OtherTeamOnFailure(sc, teamPoints, bidder, contract) ==
    LET biddingTeam == Team(bidder)
        otherTeam == IF biddingTeam = 1 THEN 2 ELSE 1
        sc1 == [sc EXCEPT ![otherTeam] = @ + teamPoints[otherTeam]]
        min4 == IF teamPoints[biddingTeam] < 4 THEN teamPoints[biddingTeam] ELSE 4
    IN
    IF contract = CinchValue
    THEN IF teamPoints[biddingTeam] = 4
         THEN [scores |-> [sc EXCEPT ![biddingTeam] = @ + CinchValue],
               success |-> TRUE, biddingTeam |-> biddingTeam, pointsAwarded |-> CinchValue]
         ELSE [scores |-> [sc1 EXCEPT ![biddingTeam] = @ - contract],
               success |-> FALSE, biddingTeam |-> biddingTeam, pointsAwarded |-> -1]
    ELSE IF teamPoints[biddingTeam] >= contract
         THEN [scores |-> [sc EXCEPT ![biddingTeam] = @ + min4],
               success |-> TRUE, biddingTeam |-> biddingTeam, pointsAwarded |-> min4]
         ELSE [scores |-> [sc1 EXCEPT ![biddingTeam] = @ - contract],
               success |-> FALSE, biddingTeam |-> biddingTeam, pointsAwarded |-> -1]

\* CinchGame.applyScore: the new cumulative scores, with the result object.
applyScore(sc, teamPoints, bidder, contract) ==
    LET biddingTeam == Team(bidder)
        otherTeam == IF biddingTeam = 1 THEN 2 ELSE 1
        sc1 == [sc EXCEPT ![otherTeam] = @ + teamPoints[otherTeam]]
        min4 == IF teamPoints[biddingTeam] < 4 THEN teamPoints[biddingTeam] ELSE 4
    IN
    IF contract = CinchValue
    THEN IF teamPoints[biddingTeam] = 4
         THEN [scores |-> [sc1 EXCEPT ![biddingTeam] = @ + CinchValue],
               success |-> TRUE, biddingTeam |-> biddingTeam, pointsAwarded |-> CinchValue]
         ELSE [scores |-> [sc1 EXCEPT ![biddingTeam] = @ - contract],
               success |-> FALSE, biddingTeam |-> biddingTeam, pointsAwarded |-> -1]
    ELSE IF teamPoints[biddingTeam] >= contract
         THEN [scores |-> [sc1 EXCEPT ![biddingTeam] = @ + min4],
               success |-> TRUE, biddingTeam |-> biddingTeam, pointsAwarded |-> min4]
         ELSE [scores |-> [sc1 EXCEPT ![biddingTeam] = @ - contract],
               success |-> FALSE, biddingTeam |-> biddingTeam, pointsAwarded |-> -1]


\* ---------------------------------------------------- engine: lifecycle

\* Variant of startNewHand that leaves the deal with the same dealer.
startNewHand_DealerStays(p, k) ==
    /\ players' = p
    /\ dealer' = IF dealer = -1 THEN 0 ELSE dealer
    /\ isFirstHand' = FALSE
    /\ currentBid' = 0
    /\ highestBidder' = NoSeat
    /\ bidContract' = 0
    /\ trumpSuit' = NoSuit
    /\ phase' = "bidding"
    /\ currentPlayer' = ((IF dealer = -1 THEN 0 ELSE dealer) + 1) % NumSeats
    /\ trickPlays' = <<>>
    /\ bids' = 0
    /\ playersDiscarded' = 0
    /\ cinchBidder' = NoSeat
    /\ cinchOverridePhase' = FALSE
    /\ overrideAttempts' = 0
    /\ playersBid' = {}
    /\ wonCards' = EmptyHands
    /\ hand' = dealCardsHands(ShuffledDeck(k), Len(p), EmptyHands)
    /\ deck' = dealCardsDeck(ShuffledDeck(k), Len(p))
    /\ result' = NoResult
    /\ discardPile' = <<>>
    /\ overrideLog' = {}
    /\ discarders' = {}
    /\ handsDealt' = handsDealt + 1
    /\ UNCHANGED <<scores, fault>>

\* CinchGame.startNewHand with the roster p, the shuffle giving deck outcome k.
startNewHand(p, k) ==
    /\ players' = p
    /\ dealer' = (dealer + 1) % NumSeats
    /\ isFirstHand' = FALSE
    /\ currentBid' = 0
    /\ highestBidder' = NoSeat
    /\ bidContract' = 0
    /\ trumpSuit' = NoSuit
    /\ phase' = "bidding"
    /\ currentPlayer' = (((dealer + 1) % NumSeats) + 1) % NumSeats
    /\ trickPlays' = <<>>
    /\ bids' = 0
    /\ playersDiscarded' = 0
    /\ cinchBidder' = NoSeat
    /\ cinchOverridePhase' = FALSE
    /\ overrideAttempts' = 0
    /\ playersBid' = {}
    /\ wonCards' = EmptyHands
    /\ hand' = dealCardsHands(ShuffledDeck(k), Len(p), EmptyHands)
    /\ deck' = dealCardsDeck(ShuffledDeck(k), Len(p))
    /\ result' = NoResult
    /\ discardPile' = <<>>
    /\ overrideLog' = {}
    /\ discarders' = {}
    /\ handsDealt' = handsDealt + 1
    /\ UNCHANGED <<scores, fault>>

\* Variant of reset that keeps the team scores.
reset_KeepsScores ==
    /\ players' = <<>>
    /\ hand' = EmptyHands
    /\ wonCards' = EmptyHands
    /\ deck' = [i \in 1 .. DeckSize |-> i - 1]
    /\ currentBid' = 0
    /\ highestBidder' = NoSeat
    /\ bidContract' = 0
    /\ trumpSuit' = NoSuit
    /\ phase' = "waiting"
    /\ currentPlayer' = 0
    /\ trickPlays' = <<>>
    /\ bids' = 0
    /\ playersDiscarded' = 0
    /\ dealer' = -1
    /\ isFirstHand' = TRUE
    /\ cinchBidder' = NoSeat
    /\ cinchOverridePhase' = FALSE
    /\ overrideAttempts' = 0
    /\ playersBid' = {}
    /\ result' = NoResult
    /\ discardPile' = <<>>
    /\ overrideLog' = {}
    /\ discarders' = {}
    /\ handsDealt' = 0
    /\ UNCHANGED <<scores, fault>>

\* CinchGame.reset.
reset ==
    /\ players' = <<>>
    /\ hand' = EmptyHands
    /\ wonCards' = EmptyHands
    /\ deck' = [i \in 1 .. DeckSize |-> i - 1]
    /\ currentBid' = 0
    /\ highestBidder' = NoSeat
    /\ bidContract' = 0
    /\ trumpSuit' = NoSuit
    /\ phase' = "waiting"
    /\ currentPlayer' = 0
    /\ trickPlays' = <<>>
    /\ bids' = 0
    /\ playersDiscarded' = 0
    /\ scores' = [t \in 1 .. 2 |-> 0]
    /\ dealer' = -1
    /\ isFirstHand' = TRUE
    /\ cinchBidder' = NoSeat
    /\ cinchOverridePhase' = FALSE
    /\ overrideAttempts' = 0
    /\ playersBid' = {}
    /\ result' = NoResult
    /\ discardPile' = <<>>
    /\ overrideLog' = {}
    /\ discarders' = {}
    /\ handsDealt' = 0
    /\ UNCHANGED fault

\* Variant of setTrumpCall that leaves the discard counter as it is.
setTrumpCall_KeepsCount(suit) ==
    IF suit \notin SUITS
    THEN [returns |-> FALSE, trumpSuit |-> trumpSuit, phase |-> phase,
          playersDiscarded |-> playersDiscarded]
    ELSE [returns |-> TRUE, trumpSuit |-> suit, phase |-> "discarding",
          playersDiscarded |-> playersDiscarded]

\* CinchGame.setTrump as a function of the state: what it returns and the
\* three fields it may write.
setTrumpCall(suit) ==
    IF suit \notin SUITS
    THEN [returns |-> FALSE, trumpSuit |-> trumpSuit, phase |-> phase,
          playersDiscarded |-> playersDiscarded]
    ELSE [returns |-> TRUE, trumpSuit |-> suit, phase |-> "discarding",
          playersDiscarded |-> 0]

\* CinchGame.setTrump returning true (handleTrump does nothing more when it
\* returns false).
setTrump(suit) ==
    /\ setTrumpCall(suit).returns
    /\ trumpSuit' = setTrumpCall(suit).trumpSuit
    /\ phase' = setTrumpCall(suit).phase
    /\ playersDiscarded' = setTrumpCall(suit).playersDiscarded

\* Variant of playCard that leaves the turn with the next seat after a
\* completed trick.
playCard_TurnMovesOn(seat, cardIndex) ==
    LET card == hand[seat][cardIndex + 1]
        h == [hand EXCEPT ![seat] = RemoveAt(@, cardIndex)]
        plays == Append(trickPlays, [seat |-> seat, card |-> card])
        winner == resolveTrick(plays, trumpSuit)
    IN
    IF Len(plays) = NumSeats
    THEN [hand |-> h,
          wonCards |-> [wonCards EXCEPT ![winner.seat] =
                            @ \o [i \in 1 .. Len(plays) |-> plays[i].card]],
          trickPlays |-> <<>>,
          currentPlayer |-> nextPlayer(currentPlayer),
          trickComplete |-> TRUE,
          winner |-> winner.seat]
    ELSE [hand |-> h, wonCards |-> wonCards, trickPlays |-> plays,
          currentPlayer |-> nextPlayer(currentPlayer), trickComplete |-> FALSE,
          winner |-> NoSeat]

\* CinchGame.playCard: the card leaves the hand for the trick, the turn
\* advances, and the 4th play resolves the trick.
playCard(seat, cardIndex) ==
    LET card == hand[seat][cardIndex + 1]
        h == [hand EXCEPT ![seat] = RemoveAt(@, cardIndex)]
        plays == Append(trickPlays, [seat |-> seat, card |-> card])
        winner == resolveTrick(plays, trumpSuit)
    IN
    IF Len(plays) = NumSeats
    THEN [hand |-> h,
          wonCards |-> [wonCards EXCEPT ![winner.seat] =
                            @ \o [i \in 1 .. Len(plays) |-> plays[i].card]],
          trickPlays |-> <<>>,
          currentPlayer |-> winner.seat,
          trickComplete |-> TRUE,
          winner |-> winner.seat]
    ELSE [hand |-> h, wonCards |-> wonCards, trickPlays |-> plays,
          currentPlayer |-> nextPlayer(currentPlayer), trickComplete |-> FALSE,
          winner |-> NoSeat]

\* ------------------------------------------------- server: event handlers

\* socket.on('registerName'): a full roster turns the socket away; the 4th
\* player to sit down starts the first hand.
RegisterName(sock, k) ==
    /\ ~fault
    /\ Len(players) < NumSeats
    /\ IF Len(players) + 1 = NumSeats
       THEN startNewHand(Append(players, sock), k)
       ELSE /\ players' = Append(players, sock)
            /\ UNCHANGED <<cardVars, bidVars, trumpSuit, scores,
                           playersDiscarded, dealer, isFirstHand, overrideLog, discarders,
                           handsDealt, fault>>

\* socket.on('nextHand').
NextHand(k) ==
    /\ ~fault
    /\ Len(players) = NumSeats
    /\ handsDealt < MaxHands
    /\ startNewHand(players, k)

\* socket.on('endGame'), and the reset after a disconnect that times out.
EndGame ==
    /\ ~fault
    /\ reset

\* handleBid up to and including processBid, then the phase it sets when
\* bidding has finished.
HandleBidState(seat, bid) ==
    LET g == processBid(BidState, seat, bid) IN
    IF g.result.finished = "true" /\ g.highestBidder # NoSeat
    THEN [g EXCEPT !.phase = "chooseTrump"]
    ELSE g

handleBid(sock, bid) ==
    /\ ~fault
    /\ phase = "bidding"
    /\ \/ /\ getPlayer(sock) = NoSeat
          /\ fault' = TRUE
          /\ UNCHANGED <<players, cardVars, bidVars, trumpSuit, scores,
                         playersDiscarded, dealer, isFirstHand, overrideLog, discarders,
                         handsDealt>>
       \/ /\ getPlayer(sock) # NoSeat
          /\ getPlayer(sock) = currentPlayer
          /\ IF cinchOverridePhase
             THEN bid \in {"cinch", "pass"}
             ELSE isValidBid(bid, currentBid)
          /\ SetBidState(HandleBidState(getPlayer(sock), bid))
          /\ overrideLog' = IF cinchOverridePhase /\ bid = "pass"
                            THEN overrideLog \cup {getPlayer(sock)}
                            ELSE overrideLog
          /\ UNCHANGED discarders
          \* game.highestBidder.name with no highest bidder throws
          /\ fault' = (HandleBidState(getPlayer(sock), bid).result.finished = "true"
                       /\ HandleBidState(getPlayer(sock), bid).highestBidder = NoSeat)
          /\ UNCHANGED <<players, cardVars, trumpSuit, scores,
                         playersDiscarded, dealer, isFirstHand, handsDealt>>

handleTrump(sock, suit) ==
    /\ ~fault
    /\ \/ /\ getPlayer(sock) = NoSeat \/ highestBidder = NoSeat
          /\ fault' = TRUE
          /\ UNCHANGED <<players, cardVars, bidVars, trumpSuit, scores,
                         playersDiscarded, dealer, isFirstHand, overrideLog, discarders,
                         handsDealt>>
       \/ /\ getPlayer(sock) # NoSeat
          /\ highestBidder # NoSeat
          /\ getPlayer(sock) = highestBidder
          /\ setTrump(suit)
          /\ UNCHANGED <<players, cardVars, currentBid, highestBidder,
                         bidContract, cinchBidder, cinchOverridePhase,
                         overrideAttempts, playersBid, bids, currentPlayer,
                         result, scores, dealer, isFirstHand, overrideLog,
                         discarders, handsDealt, fault>>

\* handleDiscard; the 4th discard event runs the server's dealNewCards.
handleDiscard(sock, indices) ==
    /\ ~fault
    /\ phase = "discarding"
    /\ \/ /\ getPlayer(sock) = NoSeat
          /\ fault' = TRUE
          /\ UNCHANGED <<players, cardVars, bidVars, trumpSuit, scores,
                         playersDiscarded, dealer, isFirstHand, overrideLog, discarders,
                         handsDealt>>
       \/ /\ getPlayer(sock) # NoSeat
          /\ LET seat == getPlayer(sock)
                 r == removeCards(hand[seat], indices)
                 h == [hand EXCEPT ![seat] = r.cards]
                 dealt == dealNewCardsFrom(0, Len(players), h, deck)
             IN
             /\ discardPile' = discardPile \o r.removed
             /\ playersDiscarded' = playersDiscarded + 1
             /\ discarders' = discarders \cup {seat}
             /\ IF playersDiscarded + 1 = NumSeats
                THEN /\ hand' = dealt.hand
                     /\ deck' = dealt.deck
                     /\ phase' = "playing"
                     /\ fault' = (highestBidder = NoSeat)
                     /\ currentPlayer' = IF highestBidder = NoSeat
                                         THEN currentPlayer ELSE highestBidder
                ELSE /\ hand' = h
                     /\ UNCHANGED <<deck, phase, currentPlayer, fault>>
          /\ UNCHANGED <<players, wonCards, trickPlays, currentBid,
                         highestBidder, bidContract, cinchBidder,
                         cinchOverridePhase, overrideAttempts, playersBid, bids,
                         result, trumpSuit, scores, dealer, isFirstHand,
                         overrideLog, handsDealt>>

\* handlePlay; the play that empties the last hand runs performScoring.
handlePlay(sock, cardIndex) ==
    /\ ~fault
    /\ phase = "playing"
    /\ \/ /\ getPlayer(sock) = NoSeat
          /\ fault' = TRUE
          /\ UNCHANGED <<players, cardVars, bidVars, trumpSuit, scores,
                         playersDiscarded, dealer, isFirstHand, overrideLog, discarders,
                         handsDealt>>
       \/ /\ getPlayer(sock) # NoSeat
          /\ canPlayCard(getPlayer(sock), cardIndex) = "valid"
          /\ LET r == playCard(getPlayer(sock), cardIndex)
                 sr == calculateScore(r.wonCards, trumpSuit)
             IN
             /\ hand' = r.hand
             /\ wonCards' = r.wonCards
             /\ trickPlays' = r.trickPlays
             /\ currentPlayer' = r.currentPlayer
             /\ IF isHandComplete(r.hand)
                THEN /\ phase' = "scoring"
                     /\ fault' = (highestBidder = NoSeat)
                     /\ scores' = IF highestBidder = NoSeat THEN scores
                                  ELSE applyScore(scores, sr.teamPoints,
                                                  highestBidder, bidContract).scores
                ELSE UNCHANGED <<phase, scores, fault>>
          /\ UNCHANGED <<players, deck, discardPile, currentBid, highestBidder,
                         bidContract, cinchBidder, cinchOverridePhase,
                         overrideAttempts, playersBid, bids, result, trumpSuit,
                         playersDiscarded, dealer, isFirstHand, overrideLog, discarders,
                         handsDealt>>


\* ------------------------------------------------------------ the inputs

Shuffles == 0 .. (NumShuffles - 1)
Sockets == 0 .. (NumSockets - 1)

\* Socket ids are interchangeable: the next socket to register is the lowest
\* one that has no seat.
LowestUnseated(sock) ==
    /\ sock \notin Range(players)
    /\ \A t \in Sockets : t < sock => t \in Range(players)

\* Bids a client sends: every key of BID_VALUES and one that is none.
BidInputs == BidNames \cup {"5"}
\* Suits a client sends: the four suits and one that is none.
SuitInputs == SUITS \cup {NumSuits}

\* The index list a client sends with discardCards: the non-trump cards, as
\* the server proposed them in 'discardPhase'.
ProposedDiscard(sock) ==
    IF getPlayer(sock) = NoSeat THEN <<>>
    ELSE getNonTrumpIndices(hand[getPlayer(sock)], trumpSuit)

\* The card index a client sends with playCard: the first one canPlayCard
\* accepts (an index it refuses leaves the state as it is).
FirstPlayable(sock) ==
    IF getPlayer(sock) = NoSeat THEN {0}
    ELSE {i \in 0 .. (CardsEach - 1) :
            /\ canPlayCard(getPlayer(sock), i) = "valid"
            /\ \A j \in 0 .. (i - 1) : canPlayCard(getPlayer(sock), j) # "valid"}

\* ------------------------------------------- Spec: the server, whole game
\* Clients bid pass, 2 or cinch, choose hearts (or an unknown suit) before
\* play starts, discard what the server proposed and play their first legal
\* card; any socket may send any of these events at any time.

Join == \E sock \in Sockets, k \in Shuffles :
            LowestUnseated(sock) /\ RegisterName(sock, k)

EndGameEvent == EndGame

BidEvent == \E sock \in Sockets, bid \in {"pass", "2", "cinch"} : handleBid(sock, bid)

TrumpEvent ==
    /\ phase \in {"bidding", "chooseTrump", "discarding"}
    /\ \E sock \in Sockets, suit \in {0, NumSuits} : handleTrump(sock, suit)

DiscardEvent == \E sock \in Sockets : handleDiscard(sock, ProposedDiscard(sock))

PlayEvent == \E sock \in Sockets : \E cardIndex \in FirstPlayable(sock) :
                 handlePlay(sock, cardIndex)

Next ==
    \/ Join
    \/ EndGameEvent
    \/ BidEvent
    \/ TrumpEvent
    \/ DiscardEvent
    \/ PlayEvent

Spec == Init /\ [][Next]_vars

\* ---------------------------------- SpecLate: chooseTrump at any time
\* As Spec, but chooseTrump (hearts, clubs or an unknown suit) may arrive in
\* every phase once bidding is over; the clients keep all their cards when
\* they discard, and discard only before the first card of the hand is played.

TrumpEventLate ==
    /\ phase \in {"chooseTrump", "discarding", "playing", "scoring"}
    /\ \E sock \in Sockets, suit \in {0, 2, NumSuits} : handleTrump(sock, suit)

DiscardNothing ==
    /\ trickPlays = <<>>
    /\ \A s \in Seats : wonCards[s] = <<>>
    /\ \E sock \in Sockets : handleDiscard(sock, <<>>)

NextLate ==
    \/ Join
    \/ EndGameEvent
    \/ BidEvent
    \/ TrumpEventLate
    \/ DiscardNothing
    \/ PlayEvent

SpecLate == Init /\ [][NextLate]_vars

\* --------------------------------------- SpecBid: the server, bidding only
\* Every bid and every suit a client can send, over several hands.

NewHandEvent == \E k \in Shuffles : NextHand(k)

BidEventAll == \E sock \in Sockets, bid \in BidInputs : handleBid(sock, bid)

TrumpEventAll == \E sock \in Sockets, suit \in SuitInputs : handleTrump(sock, suit)

NextBid ==
    \/ Join
    \/ NewHandEvent
    \/ EndGameEvent
    \/ BidEventAll
    \/ TrumpEventAll

SpecBid == Init /\ [][NextBid]_vars

\* ------------------------------ SpecEngine: the engine called directly
\* The calls the engine's own tests make: four addPlayer, then startNewHand,
\* processBid for any seated player (in or out of turn) with any bid of
\* BID_VALUES, and reset.

EngineAddPlayer ==
    /\ Len(players) < NumSeats
    /\ players' = Append(players, Len(players))
    /\ UNCHANGED <<cardVars, bidVars, trumpSuit, scores, playersDiscarded,
                   dealer, isFirstHand, overrideLog, discarders, handsDealt, fault>>

EngineStartNewHand ==
    /\ Len(players) = NumSeats
    /\ handsDealt < MaxHands
    /\ \E k \in Shuffles : startNewHand(players, k)

EngineProcessBid ==
    /\ Len(players) = NumSeats
    /\ bids < MaxBids
    /\ overrideAttempts < MaxAttempts
    /\ \E seat \in Seated, bid \in BidNames :
           SetBidState(processBid(BidState, seat, bid))
    /\ UNCHANGED <<players, cardVars, trumpSuit, scores, playersDiscarded,
                   dealer, isFirstHand, overrideLog, discarders, handsDealt, fault>>

EngineReset == reset

NextEngine ==
    \/ EngineAddPlayer
    \/ EngineStartNewHand
    \/ EngineProcessBid
    \/ EngineReset

SpecEngine == Init /\ [][NextEngine]_vars


\* ------------------------------------- SpecTrick: the last two tricks
\* Play starts from a position with two cards left in every hand: three
\* hearts, two spades, two diamonds and a club, dealt in NumTrickDeals ways,
\* hearts or spades trump, the highest bidder (contract 2 or cinch) to lead.
\* Any socket sends playCard with any index, in or out of turn.

\* 2, J, A of hearts; 3, K of spades; 10, Q of diamonds; 5 of clubs.
TrickCards == <<0, 9, 12, 40, 50, 21, 23, 29>>

TrickDeal(d) ==
    [i \in 1 .. Len(TrickCards) |->
        TrickCards[(((i - 1) * (2 * (d % 4) + 1) + (d \div 4)) % Len(TrickCards)) + 1]]

TrickHands(d) ==
    [s \in Seats |-> <<TrickDeal(d)[2 * s + 1], TrickDeal(d)[2 * s + 2]>>]

InitTrick ==
    /\ players = <<0, 1, 2, 3>>
    /\ \E d \in 0 .. (NumTrickDeals - 1) : hand = TrickHands(d)
    /\ wonCards = EmptyHands
    /\ deck = <<>>
    /\ bidContract \in {2, CinchValue}
    /\ currentBid = bidContract
    /\ highestBidder \in Seats
    /\ trumpSuit \in {0, 3}
    /\ phase = "playing"
    /\ currentPlayer = highestBidder
    /\ trickPlays = <<>>
    /\ scores = [t \in 1 .. 2 |-> 0]
    /\ bids = NumSeats
    /\ playersDiscarded = NumSeats
    /\ cinchBidder = IF bidContract = CinchValue THEN highestBidder ELSE NoSeat
    /\ cinchOverridePhase = FALSE
    /\ overrideAttempts = 0
    /\ dealer = 0
    /\ isFirstHand = FALSE
    /\ playersBid = Seats
    /\ result = Result("true", "undefined", "undefined", "undefined", "undefined")
    /\ discardPile = <<>>
    /\ overrideLog = {}
    /\ discarders = Seats
    /\ handsDealt = 1
    /\ fault = FALSE

PlayIndexInputs == 0 .. 2

TrickPlayEvent ==
    \E sock \in Sockets, cardIndex \in PlayIndexInputs : handlePlay(sock, cardIndex)

NextTrick == TrickPlayEvent

SpecTrick == InitTrick /\ [][NextTrick]_vars

\* ------------------------------------ SpecScore: the last card of a hand
\* Three clubs lie in the trick and seat 3 holds the last card, a higher
\* club.  The first NumScoreCards sample cards are shared out among the won
\* piles of seats 0..2 or left out of them (discarded or never dealt);
\* hearts or spades are trump; seat 0 or 1 holds a contract of 2 or cinch;
\* the scores start at 0-0 or 20-20.  Any socket sends playCard; seat 3's
\* play completes the hand and scores it.

\* A, J, 2 of hearts; K, 10 of spades; Q of diamonds.
ScoreCards == <<12, 9, 0, 50, 47, 23>>

\* 2, 3, 4 of clubs in the trick; 5 of clubs in seat 3's hand.
LastTrick == <<[seat |-> 0, card |-> 26], [seat |-> 1, card |-> 27],
               [seat |-> 2, card |-> 28]>>

LastCard == 29

ScoreStarts == {<<0, 0>>, <<20, 20>>}

WonPile(own, s) ==
    LET idx == SelectSeq([i \in 1 .. NumScoreCards |-> i], LAMBDA i : own[i] = s)
    IN [k \in 1 .. Len(idx) |-> ScoreCards[idx[k]]]

InitScore ==
    /\ players = <<0, 1, 2, 3>>
    /\ hand = [s \in Seats |-> IF s = 3 THEN <<LastCard>> ELSE <<>>]
    /\ \E own \in [1 .. NumScoreCards -> {NoSeat, 0, 1, 2}] :
           wonCards = [s \in Seats |-> WonPile(own, s)]
    /\ deck = <<>>
    /\ bidContract \in {2, CinchValue}
    /\ currentBid = bidContract
    /\ highestBidder \in {0, 1}
    /\ trumpSuit \in {0, 3}
    /\ phase = "playing"
    /\ currentPlayer = 3
    /\ trickPlays = LastTrick
    /\ scores \in ScoreStarts
    /\ bids = NumSeats
    /\ playersDiscarded = NumSeats
    /\ cinchBidder = IF bidContract = CinchValue THEN highestBidder ELSE NoSeat
    /\ cinchOverridePhase = FALSE
    /\ overrideAttempts = 0
    /\ dealer = 0
    /\ isFirstHand = FALSE
    /\ playersBid = Seats
    /\ result = Result("true", "undefined", "undefined", "undefined", "undefined")
    /\ discardPile = <<>>
    /\ overrideLog = {}
    /\ discarders = Seats
    /\ handsDealt = 1
    /\ fault = FALSE

LastPlayEvent == \E sock \in Sockets : handlePlay(sock, 0)

NextScore == LastPlayEvent

SpecScore == InitScore /\ [][NextScore]_vars

\* ------------------------------ SpecOver: the end of a hand and what follows
\* As SpecScore, and any client may then send nextHand or endGame, as it may
\* at any other time.

NextOver ==
    \/ LastPlayEvent
    \/ NewHandEvent
    \/ EndGameEvent

SpecOver == InitScore /\ [][NextOver]_vars

\* --------------------------- SpecHands: hand after hand, up to the first trick
\* As Spec up to the first MaxPlays cards of the first trick, the clients
\* keeping all their cards when they discard; any client may send nextHand
\* at any time, and MaxDeals hands are started in a row.

NewHandEventMany ==
    /\ ~fault
    /\ Len(players) = NumSeats
    /\ handsDealt < MaxDeals
    /\ \E k \in Shuffles : startNewHand(players, k)

FirstPlays ==
    /\ Len(trickPlays) < MaxPlays
    /\ \A s \in Seats : wonCards[s] = <<>>
    /\ PlayEvent

NextHands ==
    \/ Join
    \/ NewHandEventMany
    \/ EndGameEvent
    \/ BidEvent
    \/ TrumpEvent
    \/ DiscardNothing
    \/ FirstPlays

SpecHands == Init /\ [][NextHands]_vars

\* ------------------------------------- SpecRoster: the roster of players
\* The roster kept as the Player objects themselves: addPlayer with any
\* socket id (on a full roster too), removeAllPlayers and reset, in any order.

RosterAddPlayer ==
    /\ \E id \in Sockets : players' = addPlayer(players, id).players
    /\ UNCHANGED <<cardVars, bidVars, trumpSuit, scores, playersDiscarded,
                   dealer, isFirstHand, overrideLog, discarders, handsDealt, fault>>

\* CinchGame.removeAllPlayers.
removeAllPlayers ==
    /\ players' = <<>>
    /\ UNCHANGED <<cardVars, bidVars, trumpSuit, scores, playersDiscarded,
                   dealer, isFirstHand, overrideLog, discarders, handsDealt, fault>>

NextRoster ==
    \/ RosterAddPlayer
    \/ removeAllPlayers
    \/ EngineReset

SpecRoster == Init /\ [][NextRoster]_vars

\* ---------------------------------- SpecDeal: discards and the top-up deal
\* One hand: the first seat to bid bids 2 and the others pass; the highest
\* bidder chooses hearts (or an unknown suit) when asked to and again once
\* play has started, as long as the deck has cards left; in every round of
\* discards the players discard in seat order, each one nothing or all six
\* cards.

\* The index lists a client sends with discardCards.
DiscardLists == {<<>>, <<0, 1, 2, 3, 4, 5>>}

TwoThenPasses ==
    /\ Len(players) = NumSeats
    /\ handleBid(players[currentPlayer + 1], IF bids = 0 THEN "2" ELSE "pass")

TrumpAgain ==
    /\ phase = "chooseTrump" \/ (phase = "playing" /\ deck # <<>>)
    /\ highestBidder # NoSeat
    /\ \E suit \in {0, NumSuits} : handleTrump(players[highestBidder + 1], suit)

DiscardInTurn ==
    /\ playersDiscarded < Len(players)
    /\ \E indices \in DiscardLists :
           handleDiscard(players[playersDiscarded + 1], indices)

NextDeal ==
    \/ Join
    \/ TwoThenPasses
    \/ TrumpAgain
    \/ DiscardInTurn

SpecDeal == Init /\ [][NextDeal]_vars

\* ------------------------------ SpecLead: the start of play, and trump again
\* As SpecLate up to the first MaxPlays cards of the first trick, with the
\* players keeping all their cards and discarding in seat order, also while
\* a trick is in progress.

KeepAllInTurn ==
    /\ playersDiscarded < Len(players)
    /\ handleDiscard(players[playersDiscarded + 1], <<>>)

NextLead ==
    \/ Join
    \/ BidEvent
    \/ TrumpEventLate
    \/ KeepAllInTurn
    \/ FirstPlays

SpecLead == Init /\ [][NextLead]_vars


\* ------------------------ SpecHandEnd: a hand played to its last card
\* One hand: the first seat to bid bids 2 and the others pass; the highest
\* bidder chooses hearts when asked to and may choose hearts again after
\* leading the first card of the hand; the players keep all their cards,
\* discarding in seat order; every card is played by the seat whose turn it
\* is: any card to open the hand, afterwards the first card canPlayCard
\* accepts.

TrumpMidTrick ==
    /\ highestBidder # NoSeat
    /\ \/ phase = "chooseTrump"
       \/ /\ phase = "playing"
          /\ Len(trickPlays) = 1
          /\ SumLen(hand, Seats) = NumSeats * CardsEach - 1
    /\ handleTrump(players[highestBidder + 1], 0)

InTurnPlay ==
    /\ Len(players) = NumSeats
    /\ \E cardIndex \in 0 .. (CardsEach - 1) :
           /\ \/ trickPlays = <<>> /\ SumLen(wonCards, Seats) = 0
              \/ cardIndex \in FirstPlayable(players[currentPlayer + 1])
           /\ handlePlay(players[currentPlayer + 1], cardIndex)

NextHandEnd ==
    \/ Join
    \/ TwoThenPasses
    \/ TrumpMidTrick
    \/ KeepAllInTurn
    \/ InTurnPlay

SpecHandEnd == Init /\ [][NextHandEnd]_vars


\* ------------------------------- SpecOverride: every bid made in turn
\* Hands are dealt and every bid event comes from the socket of the seat
\* whose turn it is, with any bid name. Weak fairness of the bid events
\* states that the solicited seat does respond.
InTurnBid ==
    /\ Len(players) = NumSeats
    /\ \E bid \in BidInputs : handleBid(players[currentPlayer + 1], bid)

NextOverride ==
    \/ Join
    \/ NewHandEvent
    \/ InTurnBid

SpecOverride == Init /\ [][NextOverride]_vars /\ WF_vars(InTurnBid)

\* ---------------------------------------- SpecRemove: Hand.removeCards
\* One player holds a hand of up to MaxHandLen different cards, in any
\* order; removeCards is called on it with any list of different indices of
\* the hand, in any order, again and again.

\* Lists of different elements of S, of every length.
Arrangements(S) ==
    {f \in UNION {[1 .. n -> S] : n \in 0 .. Cardinality(S)} :
        \A i, j \in 1 .. Len(f) : i # j => f[i] # f[j]}

InitRemove ==
    /\ players = <<0>>
    /\ \E h \in Arrangements(0 .. (MaxHandLen - 1)) :
           hand = [s \in Seats |-> IF s = 0 THEN h ELSE <<>>]
    /\ wonCards = EmptyHands
    /\ deck = [i \in 1 .. DeckSize |-> i - 1]
    /\ currentBid = 0
    /\ highestBidder = NoSeat
    /\ bidContract = 0
    /\ trumpSuit = NoSuit
    /\ phase = "waiting"
    /\ currentPlayer = 0
    /\ trickPlays = <<>>
    /\ scores = [t \in 1 .. 2 |-> 0]
    /\ bids = 0
    /\ playersDiscarded = 0
    /\ cinchBidder = NoSeat
    /\ cinchOverridePhase = FALSE
    /\ overrideAttempts = 0
    /\ dealer = -1
    /\ isFirstHand = TRUE
    /\ playersBid = {}
    /\ result = NoResult
    /\ discardPile = <<>>
    /\ overrideLog = {}
    /\ discarders = {}
    /\ handsDealt = 0
    /\ fault = FALSE

\* Player.discardCards: the hand keeps what removeCards leaves, the list it
\* returns is kept in discardPile.
DiscardCardsCall ==
    \E indices \in Arrangements(0 .. (Len(hand[0]) - 1)) :
        /\ hand' = [hand EXCEPT ![0] = removeCards(@, indices).cards]
        /\ discardPile' = removeCards(hand[0], indices).removed
        /\ UNCHANGED <<players, wonCards, deck, trickPlays, bidVars, trumpSuit,
                       scores, playersDiscarded, dealer, isFirstHand,
                       overrideLog, discarders, handsDealt, fault>>

NextRemove == DiscardCardsCall

SpecRemove == InitRemove /\ [][NextRemove]_vars

\* ================================================================ claims

OpposingUnbid(seat, bidSet) ==
    {s \in Seated : Team(s) # Team(seat) /\ s \notin bidSet}

\* The first seat of S met when going round the table from the seat after
\* `seat`.
FirstInRotationAfter(seat, S) ==
    LET k == CHOOSE i \in 1 .. NumSeats :
                 /\ (seat + i) % NumSeats \in S
                 /\ \A j \in 1 .. (i - 1) : (seat + j) % NumSeats \notin S
    IN (seat + k) % NumSeats

FinishedOnly == Result("true", "undefined", "undefined", "undefined", "undefined")

C2_OverrideSucceeds ==
    \A seat \in Seated :
        (cinchOverridePhase /\ seat \notin playersBid)
        => LET g == processBid(BidState, seat, "cinch") IN
           /\ g.highestBidder = seat
           /\ g.cinchBidder = seat
           /\ g.bidContract = CinchValue
           /\ g.playersBid = playersBid \cup {seat}
           /\ ~g.cinchOverridePhase
           /\ g.overrideAttempts = 0
           /\ g.result = Result("true", "true", "undefined", "true", "undefined")

C2_Witness ==
    /\ result = Result("true", "true", "undefined", "true", "undefined")
    /\ highestBidder = cinchBidder
    /\ highestBidder \in playersBid
    /\ bidContract = CinchValue
    /\ ~cinchOverridePhase

\* C3: no response made during the override sub-phase, whatever the seat and
\* the bid, makes a seat that was already recorded as having bid this hand
\* the highestBidder or the cinchBidder.
C3_NoSecondBid ==
    \A seat \in Seated, bid \in BidNames :
        cinchOverridePhase
        => LET g == processBid(BidState, seat, bid) IN
           \A s \in playersBid :
               /\ g.highestBidder = s => highestBidder = s
               /\ g.cinchBidder = s => cinchBidder = s

C3_Witness ==
    /\ cinchOverridePhase
    /\ result.error # "undefined"
    /\ highestBidder = cinchBidder
    /\ Cardinality(playersBid) >= 2

\* C4: during the override sub-phase a cinch from a seat that has already bid
\* returns a result with an error field and finished:false and changes
\* nothing but the attempt counter, which goes up by one.
C4_RejectedOverride ==
    \A seat \in Seated :
        (cinchOverridePhase /\ seat \in playersBid)
        => LET g == processBid(BidState, seat, "cinch") IN
           /\ g.result.error # "undefined"
           /\ g.result.finished = "false"
           /\ g = [BidState EXCEPT !.overrideAttempts = overrideAttempts + 1,
                                   !.result = g.result]

C4_Witness ==
    /\ cinchOverridePhase
    /\ result.error = "Player has already bid this hand"
    /\ result.finished = "false"
    /\ overrideAttempts >= 1

C6_UnsuccessfulOverride ==
    \A seat \in Seated, bid \in BidNames \ {"cinch"} :
        (/\ cinchOverridePhase
         /\ overrideAttempts + 1 >= Cardinality(OpposingUnbid(cinchBidder, playersBid)))
        => LET g == processBid(BidState, seat, bid) IN
           /\ g.result = Result("true", "true", "undefined", "false", "undefined")
           /\ g.highestBidder = cinchBidder
           /\ g.cinchBidder = cinchBidder
           /\ g.bidContract = CinchValue
           /\ g.currentBid = CinchValue
           /\ g.highestBidder = highestBidder
           /\ g.bidContract = bidContract
           /\ g.currentBid = currentBid
           /\ ~g.cinchOverridePhase
           /\ g.overrideAttempts = 0

C6_Witness ==
    /\ result = Result("true", "true", "undefined", "false", "undefined")
    /\ ~cinchOverridePhase
    /\ overrideAttempts = 0
    /\ highestBidder = cinchBidder
    /\ cinchBidder # NoSeat
    /\ bidContract = CinchValue

\* C7: while no seat has bid cinch the turn goes round one seat at a time
\* from the seat left of the dealer, each seat bidding once; the first three
\* bids return finished:false, the fourth returns finished:true and sets the
\* phase to chooseTrump.
BidOrder(n) == {(dealer + i) % NumSeats : i \in 1 .. n}

C7_NormalBiddingOrder ==
    /\ (phase = "bidding" /\ cinchBidder = NoSeat)
       => /\ bids < NumSeats
          /\ currentPlayer = (dealer + 1 + bids) % NumSeats
          /\ playersBid = BidOrder(bids)
          /\ bids > 0 => result.finished = "false"
          /\ \A bid \in BidNames \ {"cinch"} :
                 isValidBid(bid, currentBid)
                 => LET g == processBid(BidState, currentPlayer, bid) IN
                    IF bids + 1 = NumSeats
                    THEN g.result.finished = "true" /\ g.phase = "chooseTrump"
                    ELSE g.result.finished = "false" /\ g.phase = "bidding"
    /\ (phase = "chooseTrump" /\ cinchBidder = NoSeat)
       => /\ bids = NumSeats
          /\ playersBid = Seats
          /\ result.finished = "true"

C7_Witness ==
    /\ phase = "chooseTrump"
    /\ cinchBidder = NoSeat
    /\ bids = NumSeats
    /\ dealer = 1
    /\ highestBidder = 0
    /\ result = FinishedOnly

\* C8: a cinch made in normal bidding ends bidding at once when it is the
\* 4th bid of the hand or when every seat of the other team has already
\* bid: the phase becomes chooseTrump, the result is {finished:true} alone,
\* the override sub-phase is not entered and its bookkeeping is cleared.
C8_CinchEndsBidding ==
    \A seat \in Seated :
        (/\ ~cinchOverridePhase
         /\ \/ bids + 1 = NumSeats
            \/ OpposingUnbid(seat, playersBid) = {})
        => LET g == processBid(BidState, seat, "cinch") IN
           /\ g.phase = "chooseTrump"
           /\ g.result = FinishedOnly
           /\ ~g.cinchOverridePhase
           /\ g.overrideAttempts = 0
           /\ g.cinchBidder = seat

C8_Witness ==
    /\ phase = "chooseTrump"
    /\ result = FinishedOnly
    /\ cinchBidder # NoSeat
    /\ bids < NumSeats
    /\ OpposingUnbid(cinchBidder, playersBid) = {}
    /\ ~cinchOverridePhase

\* C9: the order of the phases within a hand.
PhaseRank(p) ==
    CASE p = "waiting" -> 0
      [] p = "bidding" -> 1
      [] p = "chooseTrump" -> 2
      [] p = "discarding" -> 3
      [] p = "playing" -> 4
      [] p = "scoring" -> 5

\* C9: within a hand, that is on every step other than reset and
\* startNewHand, the phase never moves back in the order waiting, bidding,
\* chooseTrump, discarding, playing, scoring.
C9_PhaseNeverMovesBack ==
    [][handsDealt' = handsDealt => PhaseRank(phase') >= PhaseRank(phase)]_vars

\* C10 as stated: the cards in the four hands, the deck, the discard pile
\* and the trick in progress number 52.
C10_FiftyTwoWithoutWonCards ==
    SumLen(hand, Seats) + Len(deck) + Len(discardPile) + Len(trickPlays)
        = DeckSize

\* C10, with the won-card piles counted: the cards in the four hands, the
\* four won-card piles, the deck, the discard pile and the trick in progress
\* number 52.
C10_FiftyTwoCards ==
    SumLen(hand, Seats) + SumLen(wonCards, Seats) + Len(deck)
        + Len(discardPile) + Len(trickPlays) = DeckSize

C10_Witness ==
    /\ phase = "playing"
    /\ Len(discardPile) > 0
    /\ SumLen(wonCards, Seats) = NumSeats
    /\ Len(trickPlays) = 2

\* The seat's hand holds a card of the suit.
HoldsSuit(seat, suit) == \E c \in Range(hand[seat]) : Suit(c) = suit

\* C11: for the seat whose turn it is and an index that has a card,
\* canPlayCard refuses with 'You must follow suit (<led suit>) if you have
\* one.' exactly when the trick has a led card, the seat holds a card of the
\* led suit and the chosen card is of another suit, and accepts otherwise;
\* so in a trick in progress every seat that held the led suit at its turn
\* played a card of the led suit.
C11_FollowSuit ==
    /\ \A seat \in Seated, i \in 0 .. (CardsEach - 1) :
           (phase = "playing" /\ seat = currentPlayer /\ i < Len(hand[seat]))
           => IF /\ trickPlays # <<>>
                 /\ HoldsSuit(seat, Suit(trickPlays[1].card))
                 /\ Suit(hand[seat][i + 1]) # Suit(trickPlays[1].card)
              THEN canPlayCard(seat, i) = MustFollowSuit(Suit(trickPlays[1].card))
              ELSE canPlayCard(seat, i) = "valid"
    /\ \A i \in 2 .. Len(trickPlays) :
           (\/ Suit(trickPlays[i].card) = Suit(trickPlays[1].card)
            \/ HoldsSuit(trickPlays[i].seat, Suit(trickPlays[1].card)))
           => Suit(trickPlays[i].card) = Suit(trickPlays[1].card)

C11_Witness ==
    /\ phase = "playing"
    /\ Len(trickPlays) = 2
    /\ Suit(trickPlays[2].card) # Suit(trickPlays[1].card)
    /\ canPlayCard(currentPlayer, 0) = MustFollowSuit(Suit(trickPlays[1].card))
    /\ canPlayCard(currentPlayer, 1) = "valid"

\* C12: canPlayCard answers 'Not your turn' for every index when the phase
\* is not playing or the seat is not the current one, and 'Invalid card
\* index' in the playing phase for the current seat when no card sits at the
\* index.
C12_TurnAndIndex ==
    \A seat \in Seated, i \in (-1) .. CardsEach :
        /\ (phase # "playing" \/ seat # currentPlayer)
           => canPlayCard(seat, i) = "Not your turn"
        /\ (/\ phase = "playing"
            /\ seat = currentPlayer
            /\ (i < 0 \/ i >= Len(hand[seat])))
           => canPlayCard(seat, i) = "Invalid card index"

C12_Witness ==
    /\ phase = "playing"
    /\ trickPlays # <<>>
    /\ Len(hand[currentPlayer]) \in 1 .. (CardsEach - 1)
    /\ canPlayCard(currentPlayer, CardsEach - 1) = "Invalid card index"
    /\ canPlayCard(nextPlayer(currentPlayer), 0) = "Not your turn"

\* C13: playCard takes the chosen card out of the hand; on the first three
\* plays of a trick it appends the play to the trick, moves the turn one
\* seat on and reports trickComplete:false; on the 4th play it gives the
\* four cards to the winner resolveTrick names, empties the trick, gives the
\* turn to the winner and reports trickComplete:true with the winner.
C13_PlayCard ==
    \A seat \in Seated, i \in 0 .. (CardsEach - 1) :
        (phase = "playing" /\ i < Len(hand[seat]))
        => LET card == hand[seat][i + 1]
               plays == Append(trickPlays, [seat |-> seat, card |-> card])
               r == playCard(seat, i)
           IN
           /\ Len(r.hand[seat]) = Len(hand[seat]) - 1
           /\ Range(r.hand[seat]) = Range(hand[seat]) \ {card}
           /\ \A s \in Seats \ {seat} : r.hand[s] = hand[s]
           /\ IF Len(trickPlays) < NumSeats - 1
              THEN /\ r.trickPlays = plays
                   /\ r.currentPlayer = (currentPlayer + 1) % NumSeats
                   /\ r.trickComplete = FALSE
                   /\ r.wonCards = wonCards
              ELSE /\ r.trickComplete = TRUE
                   /\ r.winner = resolveTrick(plays, trumpSuit).seat
                   /\ r.trickPlays = <<>>
                   /\ r.currentPlayer = r.winner
                   /\ r.wonCards[r.winner] =
                          wonCards[r.winner] \o [k \in 1 .. NumSeats |-> plays[k].card]
                   /\ \A s \in Seats \ {r.winner} : r.wonCards[s] = wonCards[s]

C13_Witness ==
    /\ phase = "playing"
    /\ trickPlays = <<>>
    /\ Len(wonCards[currentPlayer]) = NumSeats
    /\ SumLen(wonCards, Seats) = NumSeats
    /\ SumLen(hand, Seats) = NumSeats
    /\ currentPlayer # highestBidder

\* C14: the winner of a trick is the play with the highest-rank trump when a
\* trump was played and otherwise the play with the highest-rank card of the
\* led suit, and it is the same card in whatever order the three cards after
\* the lead were played.
MaxRankPlay(plays, suit) ==
    CHOOSE p \in Range(plays) :
        /\ Suit(p.card) = suit
        /\ \A q \in Range(plays) :
               Suit(q.card) = suit => getRankIndex(q.card) <= getRankIndex(p.card)

FollowerOrders ==
    {f \in [2 .. NumSeats -> 2 .. NumSeats] : \A a, b \in 2 .. NumSeats : f[a] = f[b] => a = b}

Reordered(plays, f) == [k \in 1 .. NumSeats |-> IF k = 1 THEN plays[1] ELSE plays[f[k]]]

C14_TrickWinner ==
    \A seat \in Seated : \A c \in Range(hand[seat]) :
        (phase = "playing" /\ Len(trickPlays) = NumSeats - 1)
        => LET plays == Append(trickPlays, [seat |-> seat, card |-> c])
               w == resolveTrick(plays, trumpSuit)
           IN
           /\ IF \E p \in Range(plays) : Suit(p.card) = trumpSuit
              THEN w = MaxRankPlay(plays, trumpSuit)
              ELSE w = MaxRankPlay(plays, Suit(plays[1].card))
           /\ \A f \in FollowerOrders :
                  resolveTrick(Reordered(plays, f), trumpSuit) = w

C14_Witness ==
    /\ phase = "playing"
    /\ trickPlays = <<>>
    /\ Len(wonCards[currentPlayer]) = NumSeats
    /\ Suit(wonCards[currentPlayer][1]) # trumpSuit
    /\ Suit(wonCards[currentPlayer][2]) = trumpSuit
    /\ Suit(wonCards[currentPlayer][3]) = trumpSuit
    /\ getRankIndex(wonCards[currentPlayer][3]) > getRankIndex(wonCards[currentPlayer][2])

\* The teamPoints a hand can give: at most the four points High, Low, Jack
\* and Game, split between the teams.
TeamPointPairs == {tp \in [1 .. 2 -> 0 .. 4] : tp[1] + tp[2] <= 4}

OtherTeam(t) == 3 - t

Min(a, b) == IF a < b THEN a ELSE b

\* C15: with a contract of 11 the highest bidder's team succeeds only with
\* exactly 4 teamPoints, and then gains 11, reported as pointsAwarded;
\* otherwise it fails and loses 11.
C15_CinchScore ==
    \A tp \in TeamPointPairs :
        LET r == applyScore(scores, tp, highestBidder, CinchValue)
            b == Team(highestBidder)
        IN IF tp[b] = 4
           THEN /\ r.success
                /\ r.scores[b] = scores[b] + 11
                /\ r.pointsAwarded = 11
           ELSE /\ ~r.success
                /\ r.scores[b] = scores[b] - 11

C15_Witness ==
    /\ phase = "scoring"
    /\ bidContract = CinchValue
    /\ calculateScore(wonCards, trumpSuit).teamPoints[Team(highestBidder)] = 4
    /\ scores[Team(highestBidder)] = 11
    /\ scores[OtherTeam(Team(highestBidder))] = 0

C17_OtherTeamScore ==
    \A contract \in (1 .. 4) \cup {CinchValue}, tp \in TeamPointPairs :
        LET r == applyScore(scores, tp, highestBidder, contract)
            o == OtherTeam(Team(highestBidder))
        IN /\ r.scores[o] = scores[o] + tp[o]
           /\ r.scores[o] >= scores[o]

C17_Witness ==
    /\ phase = "scoring"
    /\ bidContract = 2
    /\ scores[Team(highestBidder)] = 18
    /\ scores[OtherTeam(Team(highestBidder))] = 23

\* The cards in the won piles, and the team of the seat whose pile holds a
\* card.
WonSet == UNION {Range(wonCards[s]) : s \in Seated}

HolderTeam(c) == Team(CHOOSE s \in Seated : c \in Range(wonCards[s]))

WonTrumps == {c \in WonSet : Suit(c) = trumpSuit}

\* C18: calculateScore gives High to the team holding the highest-rank trump
\* among the won cards, Low to the team holding the lowest-rank one, Jack to
\* the team holding the Jack of trump when it is among the won cards, and
\* none of the three when no trump is among the won cards; each award is one
\* teamPoint.
C18_HighLowJack ==
    LET r == calculateScore(wonCards, trumpSuit)
        awards(t) == (IF r.high = t THEN 1 ELSE 0) + (IF r.low = t THEN 1 ELSE 0)
                     + (IF r.jack = t THEN 1 ELSE 0) + (IF r.game = t THEN 1 ELSE 0)
    IN
    /\ IF WonTrumps = {}
       THEN r.high = 0 /\ r.low = 0 /\ r.jack = 0
       ELSE /\ r.high = HolderTeam(CHOOSE c \in WonTrumps :
                            \A d \in WonTrumps : getRankIndex(d) <= getRankIndex(c))
            /\ r.low = HolderTeam(CHOOSE c \in WonTrumps :
                            \A d \in WonTrumps : getRankIndex(d) >= getRankIndex(c))
            /\ r.jack = IF trumpSuit * NumRanks + 9 \in WonSet
                        THEN HolderTeam(trumpSuit * NumRanks + 9) ELSE 0
    /\ \A t \in 1 .. 2 : r.teamPoints[t] = awards(t)

C18_Witness ==
    /\ phase = "scoring"
    /\ trumpSuit = 0
    /\ {0, 9, 12} \subseteq WonSet
    /\ HolderTeam(12) = 1
    /\ HolderTeam(0) = 2
    /\ HolderTeam(9) = 2

\* The point value of a card as the rules give it.
RulePoints(c) ==
    CASE c % NumRanks = 12 -> 4
      [] c % NumRanks = 11 -> 3
      [] c % NumRanks = 10 -> 2
      [] c % NumRanks = 9 -> 1
      [] c % NumRanks = 8 -> 10
      [] OTHER -> 0

RECURSIVE SumRulePoints(_)
SumRulePoints(S) ==
    IF S = {} THEN 0
    ELSE LET c == CHOOSE x \in S : TRUE IN RulePoints(c) + SumRulePoints(S \ {c})

TeamWonSet(t) == UNION {Range(wonCards[s]) : s \in {x \in Seated : Team(x) = t}}

\* C19: calculateScore reports for each team the sum of the point values of
\* all the cards it has won, of any suit, and gives the Game point to the
\* team with the strictly higher sum; on equal sums no team gets it.
C19_GamePoint ==
    LET r == calculateScore(wonCards, trumpSuit)
        p1 == SumRulePoints(TeamWonSet(1))
        p2 == SumRulePoints(TeamWonSet(2))
    IN
    /\ r.points = <<p1, p2>>
    /\ r.game = IF p1 > p2 THEN 1 ELSE IF p2 > p1 THEN 2 ELSE 0

C19_Witness ==
    /\ phase = "scoring"
    /\ calculateScore(wonCards, trumpSuit).game = 0
    /\ calculateScore(wonCards, trumpSuit).points = <<4, 4>>
    /\ Len(wonCards[3]) = NumSeats

\* C20: getWinningTeam is null while both scores are below 21, null when
\* the scores are equal and at least 21, and otherwise the team with the
\* strictly higher score.
C20_WinningTeam ==
    LET w == getWinningTeam(scores) IN
    /\ (scores[1] < 21 /\ scores[2] < 21) => w = 0
    /\ (scores[1] = scores[2] /\ scores[1] >= 21) => w = 0
    /\ ((scores[1] >= 21 \/ scores[2] >= 21) /\ scores[1] > scores[2]) => w = 1
    /\ ((scores[1] >= 21 \/ scores[2] >= 21) /\ scores[2] > scores[1]) => w = 2

C20_Witness ==
    /\ phase = "scoring"
    /\ scores[1] >= 21
    /\ scores[2] >= 21
    /\ scores[2] > scores[1]
    /\ getWinningTeam(scores) = 2

\* C21: once a hand has been scored and a team has reached WinScore, no
\* further hand is dealt and the team scores stay as they are until reset.
C21_NoHandAfterGameOver ==
    [][(phase = "scoring" /\ isGameComplete(scores) /\ phase' # "waiting")
         => /\ phase' = "scoring"
            /\ hand' = hand
            /\ deck' = deck
            /\ scores' = scores]_vars

\* C22: a step that starts a hand moves the dealer one seat on modulo 4 (to
\* seat 0 for the first hand after construction or reset), sets the phase to
\* bidding and the turn to the seat after the dealer, clears bid, highest
\* bidder, contract, trump, trick, bid count, set of seats that bid, cinch
\* bidder, override flag and attempt counter, and with 4 players leaves 6
\* cards in every hand and 28 in the deck.
C22_StartNewHand ==
    [][handsDealt' = handsDealt + 1
         => /\ dealer' = (dealer + 1) % NumSeats
            /\ isFirstHand => dealer' = 0
            /\ phase' = "bidding"
            /\ currentPlayer' = (dealer' + 1) % NumSeats
            /\ currentBid' = 0
            /\ highestBidder' = NoSeat
            /\ bidContract' = 0
            /\ trumpSuit' = NoSuit
            /\ trickPlays' = <<>>
            /\ bids' = 0
            /\ playersBid' = {}
            /\ cinchBidder' = NoSeat
            /\ cinchOverridePhase' = FALSE
            /\ overrideAttempts' = 0
            /\ Len(players') = NumSeats
                  => /\ \A s \in Seats : Len(hand'[s]) = 6
                     /\ Len(deck') = 28]_vars

\* The 5th hand in a row has been started: the dealer is seat 0 again.
C22_Witness ==
    /\ handsDealt = NumSeats + 1
    /\ dealer = 0
    /\ phase = "bidding"
    /\ bids = 0

\* C23: the roster never holds more than 4 players, the player at list
\* position i (from 0) has seat i and team 1 for an even, 2 for an odd seat,
\* and addPlayer on a full roster returns null and the roster as it was.
C23_Roster ==
    /\ Len(players) <= 4
    /\ \A i \in 1 .. Len(players) :
           /\ players[i].seat = i - 1
           /\ players[i].team = IF (i - 1) % 2 = 0 THEN 1 ELSE 2
    /\ Len(players) = 4
          => \A id \in Sockets :
                 /\ addPlayer(players, id).player = NoPlayer
                 /\ addPlayer(players, id).players = players

\* A full roster, the same socket id seated twice.
C23_Witness ==
    /\ Len(players) = 4
    /\ players[4].team = 2
    /\ players[1].id = players[3].id

\* C24: with every normal bid valid (handleBid lets no other through), the
\* contract equals the current bid and a highest bidder exists exactly when
\* a number has been bid; in normal bidding a valid pass by any seat leaves
\* bid, bidder and contract alone and any other valid bid sets the bid to its
\* own, strictly higher value, the bidder to its seat and the contract to
\* the bid; within a hand the current bid never decreases.
C24_ValidBidsRaise ==
    /\ [](/\ bidContract = currentBid
          /\ (highestBidder = NoSeat) <=> (currentBid = 0)
          /\ highestBidder # NoSeat => highestBidder \in playersBid)
    /\ [](phase = "bidding" /\ ~cinchOverridePhase
            => \A seat \in Seated, bid \in BidNames :
                   isValidBid(bid, currentBid)
                     => LET g == processBid(BidState, seat, bid) IN
                        IF bid = "pass"
                        THEN /\ g.currentBid = currentBid
                             /\ g.highestBidder = highestBidder
                             /\ g.bidContract = bidContract
                        ELSE /\ g.currentBid = BID_VALUES(bid)
                             /\ g.currentBid > currentBid
                             /\ g.highestBidder = seat
                             /\ g.bidContract = g.currentBid)
    /\ [][handsDealt' = handsDealt /\ phase' # "waiting"
            => currentBid' >= currentBid]_vars

\* In the second hand, the second seat to bid holds the bid at 4.
C24_Witness ==
    /\ phase = "bidding"
    /\ ~cinchOverridePhase
    /\ bids = 2
    /\ currentBid = 4
    /\ playersBid = {(dealer + 1) % NumSeats, (dealer + 2) % NumSeats}
    /\ highestBidder = (dealer + 2) % NumSeats
    /\ handsDealt = 2

\* C25: play starts only once every one of the four players has discarded:
\* in the playing phase all four seats have sent their discard, and while
\* fewer have, the phase is not yet playing.
C25_AllFourDiscarded ==
    phase = "playing" => discarders = Seats

\* C26: in a hand started by startNewHand with 4 players, the top-up deal
\* that opens play never runs out of deck: when the phase becomes playing,
\* every player holds exactly 6 cards.
C26_SixCardsWhenPlayStarts ==
    [][phase = "discarding" /\ phase' = "playing"
         => \A s \in Seats : Len(hand'[s]) = CardsEach]_vars

\* C27: the high bidder leads the first trick: on every step that makes the
\* phase playing, the trick in progress is empty and the turn is with the
\* seat of the highest bidder.
C27_HighBidderLeads ==
    [][phase # "playing" /\ phase' = "playing"
         => /\ trickPlays' = <<>>
            /\ highestBidder' # NoSeat
            /\ currentPlayer' = highestBidder']_vars

\* C28: in every state, setTrump with a suit that is none of the four
\* returns false and leaves trump, phase and discard counter as they are,
\* and setTrump with one of the four returns true, makes it the trump suit,
\* sets the phase to discarding and the discard counter to 0.
C28_SetTrump ==
    \A suit \in SuitInputs :
        LET r == setTrumpCall(suit) IN
        IF suit \in {0, 1, 2, 3}
        THEN /\ r.returns = TRUE
             /\ r.trumpSuit = suit
             /\ r.phase = "discarding"
             /\ r.playersDiscarded = 0
        ELSE /\ r.returns = FALSE
             /\ r.trumpSuit = trumpSuit
             /\ r.phase = phase
             /\ r.playersDiscarded = playersDiscarded

\* Clubs were made trump after two players had discarded under another
\* trump suit: the discard counter is back at 0.
C28_Witness ==
    /\ phase = "discarding"
    /\ trumpSuit = 2
    /\ playersDiscarded = 0
    /\ discarders = {0, 1}

\* The state of a CinchGame as its constructor leaves it.
FreshGame ==
    /\ players = <<>>
    /\ deck = [i \in 1 .. 52 |-> i - 1]
    /\ phase = "waiting"
    /\ scores = <<0, 0>>
    /\ dealer = -1
    /\ isFirstHand = TRUE
    /\ currentBid = 0
    /\ highestBidder = NoSeat
    /\ bidContract = 0
    /\ trumpSuit = NoSuit
    /\ trickPlays = <<>>
    /\ currentPlayer = 0
    /\ bids = 0
    /\ playersDiscarded = 0
    /\ playersBid = {}
    /\ cinchBidder = NoSeat
    /\ cinchOverridePhase = FALSE
    /\ overrideAttempts = 0

\* C29: every step that takes the game to the waiting phase or empties the
\* roster (only reset does) ends in the freshly constructed state, whatever
\* the state before; a reset of that state therefore changes nothing.
C29_ResetIsFresh ==
    [][phase' = "waiting" \/ players' = <<>> => FreshGame']_vars

\* Seat 1's cinch hand has been scored and both teams have points: endGame
\* resets from here.
C29_Witness ==
    /\ phase = "scoring"
    /\ scores[1] > 0
    /\ scores[2] > 0
    /\ bidContract = CinchValue
    /\ cinchBidder = 1
    /\ ENABLED EndGameEvent

\* The p-th smallest element of the set of numbers S.
NthSmallest(S, p) == CHOOSE x \in S : Cardinality({y \in S : y < x}) = p - 1

\* The cards of a hand at the 0-based positions outside S, in hand order.
KeptInOrder(cards, S) ==
    LET keep == {i \in 0 .. (Len(cards) - 1) : i \notin S} IN
    [p \in 1 .. Cardinality(keep) |-> cards[NthSmallest(keep, p) + 1]]

\* C30: for every hand and every list of different in-range indices, in any
\* order, removeCards returns exactly the cards that sat at those positions,
\* each once, and leaves the other cards in their original relative order.
C30_RemoveCards ==
    \A indices \in Arrangements(0 .. (Len(hand[0]) - 1)) :
        LET r == removeCards(hand[0], indices) IN
        /\ r.cards = KeptInOrder(hand[0], Range(indices))
        /\ Len(r.removed) = Len(indices)
        /\ Range(r.removed) = {hand[0][i + 1] : i \in Range(indices)}

\* The first and third of four cards have been removed.
C30_Witness ==
    /\ hand[0] = <<3, 1>>
    /\ Range(discardPile) = {0, 2}

\* C31: with a cinch bidder set, getEligibleOpposingPlayers returns the empty
\* list whenever the dealer pointer is no index of a seated player, and
\* otherwise the seated players of the other team than the cinch bidder
\* that have not bid this hand.
C31_EligibleNeedsDealer ==
    cinchBidder # NoSeat
      => getEligibleOpposingPlayers(BidState) =
             IF dealer < 0 \/ dealer >= Len(players)
             THEN {}
             ELSE {s \in 0 .. (Len(players) - 1) :
                      s % 2 # cinchBidder % 2 /\ s \notin playersBid}

C33_BiddingEndsWithWinner ==
    (phase = "chooseTrump" \/ result.finished = "true")
      => /\ highestBidder \in Seated
         /\ bidContract \in {1, 2, 3, 4, CinchValue}

\* C34 as stated: whenever processBid returns finished:true, the engine's
\* phase is chooseTrump on return, the end of the cinch-override sub-phase
\* included.
C34_FinishedMeansChooseTrump ==
    Len(players) = NumSeats
      => \A seat \in Seated, bid \in BidNames :
             LET g == processBid(BidState, seat, bid) IN
             g.result.finished = "true" => g.phase = "chooseTrump"

\* C34: when processBid returns finished:true from normal bidding the
\* engine's phase is chooseTrump on return; when it returns finished:true
\* at the successful or the unsuccessful end of the cinch-override sub-phase
\* it has left the phase as it was.
C34_FinishedPhase ==
    Len(players) = NumSeats
      => \A seat \in Seated, bid \in BidNames :
             LET g == processBid(BidState, seat, bid) IN
             g.result.finished = "true"
               => g.phase = IF cinchOverridePhase THEN phase
                            ELSE "chooseTrump"

\* processBid has just returned finished:true at the end of the override
\* sub-phase of a dealt hand, and the engine's phase is still bidding.
C34_Witness ==
    /\ result.finished = "true"
    /\ result.cinchOverride = "true"
    /\ ~cinchOverridePhase
    /\ phase = "bidding"

\* C35: once the trump suit of a hand has been chosen, no step other than
\* startNewHand or reset (both clear the trump suit) changes the trump suit
\* or lowers the discard counter.
C35_TrumpStays ==
    [][(trumpSuit # NoSuit /\ trumpSuit' # NoSuit)
         => (trumpSuit' = trumpSuit /\ playersDiscarded' >= playersDiscarded)]_vars

C37_TrickInRotation ==
    /\ Len(trickPlays) \in 0 .. (NumSeats - 1)
    /\ \A i \in 1 .. Len(trickPlays) :
           trickPlays[i].seat = (trickPlays[1].seat + i - 1) % NumSeats

\* C38: play never deadlocks and the hand ends after 24 plays. While the
\* phase is playing the seat whose turn it is holds a card that canPlayCard
\* accepts and fewer than 24 cards have been played; once the phase is
\* scoring every hand is empty, no trick is in progress and the won piles
\* hold 24 cards.
C38_PlayGoesOnToTheEnd ==
    /\ phase = "playing"
         => /\ \E i \in 0 .. (Len(hand[currentPlayer]) - 1) :
                   canPlayCard(currentPlayer, i) = "valid"
            /\ SumLen(wonCards, Seats) + Len(trickPlays) < NumSeats * CardsEach
    /\ phase = "scoring"
         => /\ isHandComplete(hand)
            /\ trickPlays = <<>>
            /\ SumLen(wonCards, Seats) = NumSeats * CardsEach

\* C39: calculateScore awards each of High, Low, Jack and Game to at most
\* one team: each team's teamPoints lies between 0 and 4, the two teams'
\* teamPoints sum to the number of categories awarded (High and Low when a
\* trump is among the won cards, Jack when the Jack of trump is, Game when
\* the teams' card points differ), which is at most 4 and is 4 only if the
\* Jack of trump is among the won cards and the Game totals differ.
C39_AtMostFourPoints ==
    LET r == calculateScore(wonCards, trumpSuit)
        total == r.teamPoints[1] + r.teamPoints[2]
        jackWon == trumpSuit * NumRanks + 9 \in WonTrumps
        gameDiffers == SumRulePoints(TeamWonSet(1)) # SumRulePoints(TeamWonSet(2))
    IN
    /\ r.teamPoints[1] \in 0 .. 4
    /\ r.teamPoints[2] \in 0 .. 4
    /\ total = (IF WonTrumps = {} THEN 0 ELSE 2) + (IF jackWon THEN 1 ELSE 0)
                  + (IF gameDiffers THEN 1 ELSE 0)
    /\ total <= 4
    /\ total = 4 => (jackWon /\ gameDiffers)

\* A scored hand in which the four categories are shared 3 to 1.
C39_Witness ==
    /\ phase = "scoring"
    /\ calculateScore(wonCards, trumpSuit).teamPoints \in {<<3, 1>>, <<1, 3>>}

\* C40: no bid, chooseTrump, discardCards or playCard event, from any socket
\* in any reachable state, makes its handler dereference a missing player
\* or a missing highest bidder.
C40_NoHandlerFaults == ~fault

====
